---- MODULE Spec2Model ----
(***************************************************************************)
(* A model of the request-execution substrate of mpesajs: the RateLimiter  *)
(* (admission window, retry loop, backoff), the four remote operations     *)
(* that run through it, and the failure classifiers that turn raw remote   *)
(* failures into the typed error taxonomy.                                 *)
(*                                                                         *)
(* Time is Date.now() in milliseconds; it advances in steps of TickMs.     *)
(* JavaScript values are tagged records so that undefined, null, strings,  *)
(* numbers, plain objects and Error instances can be told apart.           *)
(***************************************************************************)
EXTENDS Integers, Sequences, FiniteSets, TLC

\* ------------------------------------------------------------------ bounds

\* Number of execute() calls issued in one run.
NCalls == 2
\* Number of clock steps of TickMs a run may take.
MaxTicks == 3
\* Largest maxRetries a configuration of the concurrent runs may carry.
MaxRetriesBound == 1

\* ------------------------------------------------------- program constants

\* The admission poll interval: await this.delay(100).
PollDelayMs == 100

\* The clock is observed once per poll interval.
TickMs == PollDelayMs
\* Math.random() is drawn in thousandths; delays are kept in thousandths of
\* a millisecond so that the jitter product stays an integer.
Scale == 1000

Calls == 1..NCalls

\* ---------------------------------------------------------- JavaScript values

Undef == [t |-> "undefined"]
Null == [t |-> "null"]
\* The result of reading a property of undefined or null: the read raises
\* a TypeError, which poisons the expression it is part of.
Poison == [t |-> "poison"]
Str(s) == [t |-> "string", s |-> s]
Num(n) == [t |-> "number", n |-> n]
Bool(b) == [t |-> "boolean", b |-> b]
Obj(fields) == [t |-> "object", o |-> fields]
EmptyObj == Obj(<<>>)

Poisoned(v) == v.t = "poison"
Nullish(v) == v.t \in {"undefined", "null"}

\* JavaScript truthiness (ToBoolean).
Truthy(v) ==
    CASE v.t \in {"undefined", "null", "poison"} -> FALSE
      [] v.t = "string" -> v.s # ""
      [] v.t = "number" -> v.n # 0
      [] v.t = "boolean" -> v.b
      [] OTHER -> TRUE

\* v.k : raises on undefined and null, yields undefined for a missing key.
Get(v, k) ==
    IF Poisoned(v) \/ Nullish(v) THEN Poison
    ELSE IF v.t \in {"object", "error"} /\ k \in DOMAIN v.o THEN v.o[k]
    ELSE Undef

\* A faulty variant of v?.k: the plain property read v.k.
OptGetUnguarded(v, k) == Get(v, k)

\* v?.k : yields undefined on undefined and null.
OptGet(v, k) == IF Nullish(v) THEN Undef ELSE Get(v, k)

\* a || b
Or(a, b) == IF Poisoned(a) THEN Poison ELSE IF Truthy(a) THEN a ELSE b

\* The TypeError a property read of undefined or null raises.
JsTypeError ==
    [t |-> "error", class |-> "TypeError",
     o |-> [message |-> Str("Cannot read properties of undefined")]]

\* if (c) a else b, where a and b are the values the branches throw: an
\* access that raises while c is evaluated throws the TypeError instead.
IfTruthy(c, a, b) == IF Poisoned(c) THEN JsTypeError ELSE IF Truthy(c) THEN a ELSE b

\* String(v), as a template literal and the Error constructor apply it.
ToStr(v) ==
    CASE v.t = "undefined" -> "undefined"
      [] v.t = "null" -> "null"
      [] v.t = "string" -> v.s
      [] v.t = "number" -> ToString(v.n)
      [] v.t = "boolean" -> IF v.b THEN "true" ELSE "false"
      [] OTHER -> "[object Object]"

\* `${prefix}${v}`
Template(prefix, v) == IF Poisoned(v) THEN Poison ELSE Str(prefix \o ToStr(v))

\* ------------------------------------------------------------ error classes

\* The prototype chain of each error class (instanceof).
Ancestors(class) ==
    CASE class = "Error" -> {"Error"}
      [] class = "TypeError" -> {"TypeError", "Error"}
      [] class = "AxiosError" -> {"AxiosError", "Error"}
      [] class = "MpesaError" -> {"MpesaError", "Error"}
      [] OTHER -> {class, "MpesaError", "Error"}

InstanceOf(v, class) == v.t = "error" /\ class \in Ancestors(v.class)

\* The seven kinds of the typed error taxonomy.
Taxonomy ==
    {"AuthenticationError", "ValidationError", "NetworkError", "StkPushError",
     "PayoutError", "RegisterUrlError", "MpesaError"}

\* new <class>(message, ...props): Error stores String(message), or "" when
\* the message is undefined.  A poisoned argument means the expression that
\* builds the error raised a TypeError instead.
NewError(class, message, props) ==
    IF Poisoned(message) \/ \E k \in DOMAIN props : Poisoned(props[k])
    THEN JsTypeError
    ELSE [t |-> "error", class |-> class,
          o |-> [message |-> IF message = Undef THEN Str("") ELSE Str(ToStr(message))]
                @@ props]

\* An error raised by the HTTP client.  status = 0 stands for "no response
\* object"; hasRequest says whether error.request is set.
AxiosError(message, code, status, data, hasRequest) ==
    [t |-> "error", class |-> "AxiosError",
     o |-> [message |-> Str(message),
            code |-> code,
            response |-> IF status = 0 THEN Undef
                         ELSE Obj([status |-> Num(status), data |-> data]),
            request |-> IF hasRequest THEN EmptyObj ELSE Undef]]

\* Completion records of an asynchronous computation.
Ret(v) == [ok |-> TRUE, v |-> v]
Throw(e) == [ok |-> FALSE, v |-> e]

NoResponseMessage == "No response received from the API. Please check your network connection."

\* ------------------------------------------------------- failure classifiers
\* Each handler is a function that never returns: the operators give the
\* value it throws.

\* A faulty variant of AuthenticationErrorHandler.handle: the switch has
\* lost its four cases.
AuthenticationErrorHandlerNoTable(error) ==
    IfTruthy(OptGet(error, "resultCode"),
        NewError("AuthenticationError",
            Template("Unknown Auth Error: ", Get(error, "resultDesc")),
            [errorCode |-> Get(error, "resultCode")]),
        NewError("AuthenticationError", Str("Unknown authentication error occurred"),
                 [errorCode |-> Undef]))

\* AuthenticationErrorHandler.handle(error)
AuthenticationErrorHandler(error) ==
    IfTruthy(OptGet(error, "resultCode"),
        LET resultCode == Get(error, "resultCode")
        IN  CASE resultCode = Str("999991") ->
                    NewError("AuthenticationError",
                        Str("Invalid client id passed. Please input the correct username."),
                        [errorCode |-> resultCode])
              [] resultCode = Str("999996") ->
                    NewError("AuthenticationError",
                        Str("Invalid Authentication passed. Please select type as Basic Auth."),
                        [errorCode |-> resultCode])
              [] resultCode = Str("999997") ->
                    NewError("AuthenticationError",
                        Str("Invalid Authorization Header. Please input the correct password."),
                        [errorCode |-> resultCode])
              [] resultCode = Str("999998") ->
                    NewError("AuthenticationError",
                        Str("Required parameter [grant_type] is invalid or empty. Please select grant type as client credentials."),
                        [errorCode |-> resultCode])
              [] OTHER ->
                    NewError("AuthenticationError",
                        Template("Unknown Auth Error: ", Get(error, "resultDesc")),
                        [errorCode |-> resultCode]),
        NewError("AuthenticationError", Str("Unknown authentication error occurred"),
                 [errorCode |-> Undef]))

\* ErrorHandler.handleAuthError(error), the copy Auth.generateToken calls.
handleAuthError(error) ==
    IfTruthy(OptGet(error, "resultCode"),
        LET resultCode == Get(error, "resultCode")
        IN  CASE resultCode = Str("999991") ->
                    NewError("AuthenticationError",
                        Str("Invalid client id passed. Please input the correct username."),
                        [errorCode |-> resultCode])
              [] resultCode = Str("999996") ->
                    NewError("AuthenticationError",
                        Str("Invalid Authentication passed. Please select type as Basic Auth."),
                        [errorCode |-> resultCode])
              [] resultCode = Str("999997") ->
                    NewError("AuthenticationError",
                        Str("Invalid Authorization Header. Please input the correct password."),
                        [errorCode |-> resultCode])
              [] resultCode = Str("999998") ->
                    NewError("AuthenticationError",
                        Str("Required parameter [grant_type] is invalid or empty. Please select grant type as client credentials."),
                        [errorCode |-> resultCode])
              [] OTHER ->
                    NewError("AuthenticationError",
                        Template("Unknown Auth Error: ", Get(error, "resultDesc")),
                        [errorCode |-> resultCode]),
        NewError("AuthenticationError", Str("Unknown authentication error occurred"),
                 [errorCode |-> Undef]))

\* A faulty variant of StkPushErrorHandler.handle: the no-response test
\* comes first.
StkPushErrorHandlerRequestFirst(error) ==
    IfTruthy(OptGet(error, "request"),
        NewError("NetworkError", Str(NoResponseMessage), <<>>),
    IfTruthy(OptGet(error, "ResponseCode"),
        NewError("StkPushError",
            Or(Or(Get(error, "ResponseDescription"), Get(error, "CustomerMessage")),
               Str("STK Push error occurred")),
            [responseCode |-> Get(error, "ResponseCode"),
             merchantRequestId |-> Get(error, "MerchantRequestID"),
             checkoutRequestId |-> Get(error, "CheckoutRequestID")]),
    IfTruthy(OptGet(OptGet(OptGet(error, "Envelope"), "Body"), "stkCallback"),
        LET callback == Get(Get(Get(error, "Envelope"), "Body"), "stkCallback")
            ResultCode == Get(callback, "ResultCode")
            message ==
                CASE ResultCode = Str("TP40087") ->
                       Str("User entered wrong M-PESA PIN. Please try again with correct PIN.")
                  [] ResultCode = Str("17") ->
                       Str("M-PESA system internal error. Please try again after a few minutes.")
                  [] OTHER -> Get(callback, "ResultDesc")
        IN  NewError("StkPushError", message,
               [responseCode |-> ResultCode,
                merchantRequestId |-> Get(callback, "MerchantRequestID"),
                checkoutRequestId |-> Get(callback, "CheckoutRequestID")]),
        NewError("StkPushError", Str("Unknown STK Push error occurred"),
            [responseCode |-> Undef, merchantRequestId |-> Undef,
             checkoutRequestId |-> Undef]))))

\* StkPushErrorHandler.handle(error)
StkPushErrorHandler(error) ==
    IfTruthy(OptGet(error, "ResponseCode"),
        NewError("StkPushError",
            Or(Or(Get(error, "ResponseDescription"), Get(error, "CustomerMessage")),
               Str("STK Push error occurred")),
            [responseCode |-> Get(error, "ResponseCode"),
             merchantRequestId |-> Get(error, "MerchantRequestID"),
             checkoutRequestId |-> Get(error, "CheckoutRequestID")]),
    IfTruthy(OptGet(OptGet(OptGet(error, "Envelope"), "Body"), "stkCallback"),
        LET callback == Get(Get(Get(error, "Envelope"), "Body"), "stkCallback")
            ResultCode == Get(callback, "ResultCode")
            message ==
                CASE ResultCode = Str("TP40087") ->
                       Str("User entered wrong M-PESA PIN. Please try again with correct PIN.")
                  [] ResultCode = Str("17") ->
                       Str("M-PESA system internal error. Please try again after a few minutes.")
                  [] OTHER -> Get(callback, "ResultDesc")
        IN  NewError("StkPushError", message,
               [responseCode |-> ResultCode,
                merchantRequestId |-> Get(callback, "MerchantRequestID"),
                checkoutRequestId |-> Get(callback, "CheckoutRequestID")]),
    IfTruthy(OptGet(error, "request"),
        NewError("NetworkError", Str(NoResponseMessage), <<>>),
        NewError("StkPushError", Str("Unknown STK Push error occurred"),
            [responseCode |-> Undef, merchantRequestId |-> Undef,
             checkoutRequestId |-> Undef]))))

\* error?.ResponseCode && error?.ResponseCode !== '0'
NonZeroResponseCode(error) ==
    LET code == OptGet(error, "ResponseCode")
    IN  IF Poisoned(code) \/ ~Truthy(code) THEN code
        ELSE Bool(code # Str("0"))

\* A faulty variant of PayoutErrorHandler.handle: the first branch drops
\* the ConversationID.
PayoutErrorHandlerNoConversation(error) ==
    IfTruthy(NonZeroResponseCode(error),
        NewError("PayoutError",
            Or(Get(error, "ResponseDescription"), Str("Payout error occurred")),
            [errorCode |-> Get(error, "ResponseCode"),
             requestId |-> Undef,
             responseCode |-> Get(error, "ResponseCode"),
             conversationId |-> Undef]),
    IfTruthy(OptGet(error, "errorCode"),
        NewError("PayoutError",
            Or(Get(error, "errorMessage"), Str("Unknown error occurred")),
            [errorCode |-> Get(error, "errorCode"),
             requestId |-> Get(error, "requestId"),
             responseCode |-> Undef,
             conversationId |-> Undef]),
    IfTruthy(OptGet(error, "request"),
        NewError("NetworkError", Str(NoResponseMessage), <<>>),
        NewError("PayoutError",
            Template("Unknown Payout error occurred: ",
                     Or(OptGet(error, "message"), Str("No error details available"))),
            [errorCode |-> Undef, requestId |-> Undef, responseCode |-> Undef,
             conversationId |-> Undef]))))

\* PayoutErrorHandler.handle(error)
PayoutErrorHandler(error) ==
    IfTruthy(NonZeroResponseCode(error),
        NewError("PayoutError",
            Or(Get(error, "ResponseDescription"), Str("Payout error occurred")),
            [errorCode |-> Get(error, "ResponseCode"),
             requestId |-> Undef,
             responseCode |-> Get(error, "ResponseCode"),
             conversationId |-> Get(error, "ConversationID")]),
    IfTruthy(OptGet(error, "errorCode"),
        NewError("PayoutError",
            Or(Get(error, "errorMessage"), Str("Unknown error occurred")),
            [errorCode |-> Get(error, "errorCode"),
             requestId |-> Get(error, "requestId"),
             responseCode |-> Undef,
             conversationId |-> Undef]),
    IfTruthy(OptGet(error, "request"),
        NewError("NetworkError", Str(NoResponseMessage), <<>>),
        NewError("PayoutError",
            Template("Unknown Payout error occurred: ",
                     Or(OptGet(error, "message"), Str("No error details available"))),
            [errorCode |-> Undef, requestId |-> Undef, responseCode |-> Undef,
             conversationId |-> Undef]))))

\* ErrorHandler.handlePayoutError(error), the classifier of errorHandler.ts
\* that no operation calls; its PayoutError takes (message, responseCode,
\* conversationId).
handlePayoutError(error) ==
    IfTruthy(NonZeroResponseCode(error),
        NewError("PayoutError",
            Or(Get(error, "ResponseDescription"), Str("Payout error occurred")),
            [responseCode |-> Get(error, "ResponseCode"),
             conversationId |-> Get(error, "ConversationID")]),
    IfTruthy(OptGet(error, "errorCode"),
        LET errorCode == Get(error, "errorCode")
            message ==
                CASE errorCode = Str("401.002.01") -> Str("Invalid Access Token")
                  [] errorCode = Str("500.001.1001") -> Str("System Error")
                  [] errorCode = Str("403.001.01") ->
                        Str("Access Denied - Invalid Credentials")
                  [] OTHER -> Or(Get(error, "errorMessage"), Str("Unknown error occurred"))
        IN  NewError("PayoutError", message,
               [responseCode |-> errorCode, conversationId |-> Get(error, "requestId")]),
    IfTruthy(OptGet(error, "request"),
        NewError("NetworkError", Str(NoResponseMessage), <<>>),
        NewError("PayoutError",
            Template("Unknown Payout error occurred: ",
                     Or(OptGet(error, "message"), Str("No error details available"))),
            [responseCode |-> Undef, conversationId |-> Undef]))))

\* RegisterUrlErrorHandler.handle(error)
RegisterUrlErrorHandler(error) ==
    IfTruthy(OptGet(error, "header"),
        LET header == Get(error, "header")
        IN  NewError("RegisterUrlError",
               Or(Get(header, "responseMessage"), Str("Register URL error occurred")),
               [responseCode |-> Get(header, "responseCode"), shortCode |-> Undef]),
    IfTruthy(OptGet(error, "errorCode"),
        NewError("RegisterUrlError",
            Or(Get(error, "errorMessage"), Str("Unknown error occurred")),
            [responseCode |-> Get(error, "errorCode"), shortCode |-> Undef]),
    IfTruthy(OptGet(error, "request"),
        NewError("NetworkError", Str(NoResponseMessage), <<>>),
        NewError("RegisterUrlError",
            Template("Register URL error occurred: ",
                     Or(OptGet(error, "message"), Str("No error details available"))),
            [responseCode |-> Undef, shortCode |-> Undef]))))

\* ------------------------------------------------------------ operations
\* An operation is given the answers of its environment: whether its
\* arguments pass validation, and the completions of the HTTP GET of the
\* token endpoint and of the HTTP POST of the operation's endpoint.

\* error instanceof Error ? error.message : 'Unknown error occurred'
MessageOrUnknown(error) ==
    IF InstanceOf(error, "Error") THEN Get(error, "message")
    ELSE Str("Unknown error occurred")

\* The catch block of Auth.generateToken: the value it throws.
generateTokenCatch(error) ==
    IF InstanceOf(error, "AxiosError")
    THEN IF Truthy(OptGet(Get(error, "response"), "data"))
         THEN handleAuthError(Get(Get(error, "response"), "data"))
         ELSE IF Truthy(Get(error, "request")) \/ Get(error, "code") = Str("ECONNABORTED")
         THEN NewError("MpesaError", Str(NoResponseMessage), <<>>)
         ELSE NewError("MpesaError",
                       Template("Failed to generate token: ", Get(error, "message")), <<>>)
    ELSE IF InstanceOf(error, "AuthenticationError") THEN error
    ELSE NewError("MpesaError",
                  Template("Failed to generate token: ", MessageOrUnknown(error)), <<>>)

\* Auth.generateToken(), given the completion of axios.get.
generateToken(get) ==
    LET data == Get(get.v, "data")
        tried ==
            IF ~get.ok THEN Throw(get.v)
            ELSE IF Truthy(data) /\ Truthy(Get(data, "access_token"))
            THEN Ret(Obj([token |-> Get(data, "access_token"),
                          tokenType |-> Get(data, "token_type"),
                          expiresIn |-> Get(data, "expires_in")]))
            ELSE Throw(NewError("AuthenticationError",
                                Str("Unknown authentication error occurred"),
                                [errorCode |-> Undef]))
    IN  IF tried.ok THEN tried ELSE Throw(generateTokenCatch(tried.v))

\* The catch block of the function StkPush.sendStkPush passes to execute().
sendStkPushCatch(error) ==
    IF InstanceOf(error, "ValidationError") THEN error
    ELSE IF InstanceOf(error, "AxiosError")
    THEN IF Truthy(OptGet(Get(error, "response"), "data"))
         THEN StkPushErrorHandler(Get(Get(error, "response"), "data"))
         ELSE IF Truthy(Get(error, "request")) \/ Get(error, "code") = Str("ECONNABORTED")
         THEN NewError("NetworkError", Str(NoResponseMessage), <<>>)
         ELSE NewError("MpesaError",
                       Template("Failed to send STK Push request: ", Get(error, "message")),
                       <<>>)
    ELSE IF InstanceOf(error, "StkPushError") THEN error
    ELSE NewError("MpesaError",
                  Template("Failed to send STK Push request: ", MessageOrUnknown(error)),
                  <<>>)

\* The function StkPush.sendStkPush passes to execute().
sendStkPush(env) ==
    LET token == generateToken(env.get)
        data == Get(env.post.v, "data")
        tried ==
            IF ~env.valid
            THEN Throw(NewError("ValidationError", Str("Amount must be greater than 0"),
                                [field |-> Str("amount")]))
            ELSE IF ~token.ok THEN Throw(token.v)
            ELSE IF ~env.post.ok THEN Throw(env.post.v)
            ELSE IF OptGet(data, "ResponseCode") = Str("0") THEN Ret(data)
            ELSE Throw(StkPushErrorHandler(data))
    IN  IF tried.ok THEN tried ELSE Throw(sendStkPushCatch(tried.v))

\* The catch block of the function Payout.send passes to execute().
payoutSendCatch(error) ==
    IF InstanceOf(error, "ValidationError") THEN error
    ELSE IF InstanceOf(error, "AxiosError")
    THEN PayoutErrorHandler(OptGet(Get(error, "response"), "data"))
    ELSE error

\* The function Payout.send passes to execute().
payoutSend(env) ==
    LET token == generateToken(env.get)
        data == Get(env.post.v, "data")
        tried ==
            IF ~env.valid
            THEN Throw(NewError("ValidationError", Str("Amount must be greater than 0"),
                                [field |-> Str("amount")]))
            ELSE IF ~token.ok THEN Throw(token.v)
            ELSE IF ~env.post.ok THEN Throw(env.post.v)
            ELSE IF OptGet(data, "ResponseCode") = Str("0")
            THEN Ret(Obj([ConversationID |-> Get(data, "ConversationID"),
                          OriginatorConversationID |-> Get(data, "OriginatorConversationID"),
                          ResponseCode |-> Get(data, "ResponseCode"),
                          ResponseDescription |-> Get(data, "ResponseDescription")]))
            ELSE Throw(PayoutErrorHandler(data))
    IN  IF tried.ok THEN tried ELSE Throw(payoutSendCatch(tried.v))

\* The catch block of the function RegisterUrl.register passes to execute().
registerCatch(error) ==
    IF InstanceOf(error, "ValidationError") THEN error
    ELSE IF InstanceOf(error, "AxiosError")
    THEN IF Truthy(OptGet(Get(error, "response"), "data"))
         THEN RegisterUrlErrorHandler(Get(Get(error, "response"), "data"))
         ELSE IF Truthy(Get(error, "request")) \/ Get(error, "code") = Str("ECONNABORTED")
         THEN NewError("NetworkError", Str(NoResponseMessage), <<>>)
         ELSE NewError("MpesaError",
                       Template("Failed to register URLs: ", Get(error, "message")), <<>>)
    ELSE IF InstanceOf(error, "RegisterUrlError") THEN error
    ELSE NewError("MpesaError",
                  Template("Failed to register URLs: ", MessageOrUnknown(error)), <<>>)

\* The function RegisterUrl.register passes to execute(): validateUrls,
\* axios.post, parseResponse.
register(env) ==
    LET data == Get(env.post.v, "data")
        header == Get(data, "header")
        tried ==
            IF ~env.valid
            THEN Throw(NewError("MpesaError",
                    Str("Both confirmation and validation URLs must use HTTPS protocol"),
                    <<>>))
            ELSE IF ~env.post.ok THEN Throw(env.post.v)
            ELSE IF ~Truthy(OptGet(data, "header"))
            THEN Throw(RegisterUrlErrorHandler(data))
            ELSE Ret(Obj([responseCode |-> Get(header, "responseCode"),
                          responseMessage |-> Get(header, "responseMessage"),
                          customerMessage |-> Get(header, "customerMessage"),
                          timestamp |-> Get(header, "timestamp")]))
    IN  IF tried.ok THEN tried ELSE Throw(registerCatch(tried.v))

\* A caller-supplied operation that performs a bare HTTP call.
rawOperation(env) == env.post

\* The operations that run through RateLimiter.execute.
LimiterOps == {"raw", "stk", "payout", "register"}

\* One invocation of the operation function of the given kind.
OperationResult(kind, env) ==
    CASE kind = "stk" -> sendStkPush(env)
      [] kind = "payout" -> payoutSend(env)
      [] kind = "register" -> register(env)
      [] kind = "auth" -> generateToken(env.get)
      [] OTHER -> rawOperation(env)

\* The HTTP requests one invocation of the operation function issues: none
\* when validation fails, the token GET, and the POST once a token is there.
RequestsIssued(kind, env) ==
    CASE kind = "register" -> IF env.valid THEN 1 ELSE 0
      [] kind \in {"stk", "payout"} ->
            IF ~env.valid THEN 0 ELSE IF generateToken(env.get).ok THEN 2 ELSE 1
      [] OTHER -> 1

\* ------------------------------------------------------------ environment

\* Response bodies the remote API may send.
Bodies ==
    {Undef, Str(""), EmptyObj,
     Obj([ResponseCode |-> Str("0"), ResponseDescription |-> Str("Accepted"),
          ConversationID |-> Str("abc")]),
     Obj([ResponseCode |-> Str("1"), ResponseDescription |-> Str("Insufficient funds"),
          ConversationID |-> Str("abc")]),
     Obj([ResponseCode |-> Str("1"), ConversationID |-> Str("abc")]),
     Obj([ResponseCode |-> Str(""), ResponseDescription |-> Str("Insufficient funds"),
          ConversationID |-> Str("abc")]),
     Obj([errorCode |-> Str("401.002.01"), errorMessage |-> Str("Invalid Access Token"),
          requestId |-> Str("r1")]),
     Obj([errorCode |-> Str("401.002.01"), errorMessage |-> Str("Token has expired"),
          requestId |-> Str("r1")]),
     Obj([errorCode |-> Str("404.001.03"), errorMessage |-> Str("Resource not found"),
          requestId |-> Str("r1")]),
     Obj([header |-> Obj([responseCode |-> Str("00000000"),
                          responseMessage |-> Str("Success")])]),
     Obj([resultCode |-> Str("999991"), resultDesc |-> Str("Invalid client id")])}

Response(data) == Obj([data |-> data])

Http503 == AxiosError("Request failed with status code 503", Str("ERR_BAD_RESPONSE"), 503, Undef, TRUE)
HttpTimeout == AxiosError("timeout of 0ms exceeded", Str("ECONNABORTED"), 0, Undef, TRUE)
HttpSetupError == AxiosError("Invalid URL", Str("ERR_INVALID_URL"), 0, Undef, FALSE)
PlainError == NewError("Error", Str("Invalid URL"), <<>>)

\* Completions of axios.post.
PostCompletions ==
    {Ret(Response(b)) : b \in Bodies}
    \cup {Throw(AxiosError("Request failed", Str("ERR_BAD_RESPONSE"), st, b, TRUE)) :
            st \in {400, 503}, b \in Bodies}
    \cup {Throw(HttpTimeout), Throw(HttpSetupError), Throw(PlainError)}

TokenResponse ==
    Response(Obj([access_token |-> Str("tok"), token_type |-> Str("Bearer"),
                  expires_in |-> Str("3599")]))

\* Completions of axios.get on the token endpoint.
GetCompletions ==
    {Ret(TokenResponse), Ret(Response(EmptyObj)),
     Throw(AxiosError("Request failed", Str("ERR_BAD_REQUEST"), 400,
                      Obj([resultCode |-> Str("999991"), resultDesc |-> Str("Invalid client id")]),
                      TRUE)),
     Throw(HttpTimeout), Throw(PlainError)}

Env(valid, get, post) == [valid |-> valid, get |-> get, post |-> post]

\* The environments that make a difference to an operation of the given kind.
EnvsOf(kind) ==
    CASE kind = "auth" -> {Env(TRUE, g, Ret(Response(Undef))) : g \in GetCompletions}
      [] kind = "register" ->
            {Env(v, Ret(TokenResponse), p) : v \in BOOLEAN, p \in PostCompletions}
      [] kind \in {"stk", "payout"} ->
            {Env(TRUE, Ret(TokenResponse), p) : p \in PostCompletions}
            \cup {Env(TRUE, g, Ret(Response(Undef))) : g \in GetCompletions}
            \cup {Env(FALSE, Ret(TokenResponse), Ret(Response(Undef)))}
      [] OTHER -> {Env(TRUE, Ret(TokenResponse), p) : p \in PostCompletions}

\* The environments of the concurrent runs, drawn afresh at every invocation.
UnscriptedEnvs ==
    {Env(TRUE, Ret(TokenResponse), p) :
        p \in {Ret(Response(Obj([ResponseCode |-> Str("0")]))), Throw(Http503),
               Throw(PlainError)}}

\* An endpoint that answers 503 twice and then accepts the request.
FailTwiceThenSucceed ==
    <<Env(TRUE, Ret(TokenResponse), Throw(Http503)),
      Env(TRUE, Ret(TokenResponse), Throw(Http503)),
      Env(TRUE, Ret(TokenResponse),
          Ret(Response(Obj([ResponseCode |-> Str("0"), ResponseDescription |-> Str("Accepted"),
                            ConversationID |-> Str("abc")]))))>>

\* Scripts of an endpoint: what it answers to the first, second, ... request
\* of a call; the last answer repeats.
ScriptsOf(kind) ==
    {<<e>> : e \in EnvsOf(kind)}
    \cup (IF kind \in LimiterOps THEN {FailTwiceThenSucceed} ELSE {})

\* ------------------------------------------------------------ RateLimiter

VARIABLES
    now,                \* Date.now()
    activeRequests,     \* RateLimiter.activeRequests
    requestTimestamps,  \* RateLimiter.requestTimestamps
    retryConfig,        \* RateLimiter.retryConfig
    rateLimitConfig,    \* RateLimiter.rateLimitConfig
    pc,                 \* where each call is in execute()
    op,                 \* which operation each call runs
    script,             \* what the endpoint answers to each call's requests
    attempt,            \* the attempt parameter of the current executeWithRetry frame
    due,                \* when the call's pending setTimeout fires (ms * Scale)
    thrown,             \* the value the last invocation of the operation threw
    settled,            \* the completion of the promise execute() returned
    invocations,        \* history: how often each call invoked its operation
    backoffs,           \* history: how often each call computed a backoff delay
    releases,           \* history: how often each call ran activeRequests--
    admissions,         \* history: the instants at which calls were admitted
    backoffDelay,       \* the backoffDelay of the call's last catch (ms * Scale)
    httpRequests,       \* history: how many HTTP requests each call has issued
    retrySnapshot,      \* history: retryConfig as it was at the call's first catch
    arrival,            \* history: the rank of the call among the calls of execute()
    probe               \* a pure function under test: its argument and result

vars ==
    <<now, activeRequests, requestTimestamps, retryConfig, rateLimitConfig, pc, op,
      script, attempt, due, thrown, settled, invocations, backoffs, releases, admissions, backoffDelay, httpRequests,
      retrySnapshot, arrival, probe>>

Min(a, b) == IF a <= b THEN a ELSE b

RECURSIVE Pow(_, _)
Pow(b, e) == IF e = 0 THEN 1 ELSE b * Pow(b, e - 1)

\* Values of Math.random() * Scale the runs draw from.
Randoms == {0, 998}

\* A number that need not be whole: num / den.
Ratio(num, den) == [num |-> num, den |-> den]

\* A faulty variant of calculateBackoff: the delay is not capped at
\* maxDelayMs.
calculateBackoffUncapped(cfg, a, rnd) ==
    LET factor == cfg.backoffFactor
        delay == (cfg.initialDelayMs * Pow(factor.num, a)) \div Pow(factor.den, a)
    IN  delay * (750 + rnd \div 2)

\* A faulty variant of calculateBackoff: the exponent is the number of the
\* retry, not the count of completed attempts.
calculateBackoffNextAttempt(cfg, a, rnd) ==
    LET factor == cfg.backoffFactor
        delay == Min((cfg.initialDelayMs * Pow(factor.num, a + 1)) \div Pow(factor.den, a + 1),
                     cfg.maxDelayMs)
    IN  delay * (750 + rnd \div 2)

\* calculateBackoff(attempt), with rnd = Math.random() * Scale; the result is
\* the delay in milliseconds * Scale.  backoffFactor is a Ratio; the
\* configurations are chosen so that the power is a whole number.
calculateBackoff(cfg, a, rnd) ==
    LET factor == cfg.backoffFactor
        delay == Min((cfg.initialDelayMs * Pow(factor.num, a)) \div Pow(factor.den, a),
                     cfg.maxDelayMs)
    IN  delay * (750 + rnd \div 2)

\* A faulty variant of shouldRetry: 429 is not listed.
shouldRetryWithout429(error) ==
    IF InstanceOf(error, "AxiosError")
    THEN LET status == OptGet(Get(error, "response"), "status")
         IN  \/ ~Truthy(status)
             \/ status = Num(503)
             \/ status = Num(504)
             \/ (status.t = "number" /\ status.n >= 500 /\ status.n < 600)
    ELSE FALSE

\* shouldRetry(error)
shouldRetry(error) ==
    IF InstanceOf(error, "AxiosError")
    THEN LET status == OptGet(Get(error, "response"), "status")
         IN  \/ ~Truthy(status)
             \/ status = Num(429)
             \/ status = Num(503)
             \/ status = Num(504)
             \/ (status.t = "number" /\ status.n >= 500 /\ status.n < 600)
    ELSE FALSE

\* A faulty variant of the test: attempt <= maxRetries.
RetryAllowedOffByOne(cfg, a, error) == a <= cfg.maxRetries /\ shouldRetry(error)

\* The test of the catch block of executeWithRetry: retry or give up.
RetryAllowed(cfg, a, error) == a < cfg.maxRetries /\ shouldRetry(error)

\* A configuration field holds NaN: the fields that do are listed in the
\* field nan of the configuration, which configurations of numbers lack.
NotANumber(cfg, field) == "nan" \in DOMAIN cfg /\ field \in cfg.nan

\* A faulty variant of LessThan: NaN is taken for no limit.
LessThanOrNaN(n, cfg, field) == NotANumber(cfg, field) \/ n < cfg[field]

\* n < cfg[field] in JavaScript: false when the field holds NaN.
LessThan(n, cfg, field) == ~NotANumber(cfg, field) /\ n < cfg[field]

\* A faulty variant of cleanupOldTimestamps: nothing is pruned.
cleanupKeepsAll(timestamps, t, cfg) == timestamps

\* cleanupOldTimestamps(): the timestamps that stay.
cleanupOldTimestamps(timestamps, t, cfg) ==
    SelectSeq(timestamps, LAMBDA timestamp : LessThan(t - timestamp, cfg, "timeWindowMs"))

\* A faulty variant of the admission test: only the active count is looked at.
SlotAvailableActiveOnly(active, timestamps, cfg) == active < cfg.maxConcurrent

\* A faulty variant of the admission test: only the window is looked at.
SlotAvailableWindowOnly(active, timestamps, cfg) == Len(timestamps) < cfg.maxConcurrent

\* The admission test of waitForAvailableSlot.
SlotAvailable(active, timestamps, cfg) ==
    /\ LessThan(active, cfg, "maxConcurrent")
    /\ LessThan(Len(timestamps), cfg, "maxConcurrent")

\* A faulty variant of the release: the slot is given back twice.
ReleaseSlotTwice(active) == active - 2

\* A faulty variant of the release: the decrement is missing.
ReleaseSlotMissing(active) == active

\* What the finally block of execute() does to activeRequests.
ReleaseSlot(active) == active - 1

\* A faulty variant of the rethrow: the error is wrapped.
RethrowWrapped(error) ==
    NewError("MpesaError", Template("Request failed: ", MessageOrUnknown(error)), <<>>)

\* The value a call rejects with once executeWithRetry gives up on error.
Rethrow(error) == error

\* Configurations read from the environment when the singleton is built.
RateLimitConfigs ==
    {[maxConcurrent |-> m, timeWindowMs |-> 2 * PollDelayMs] : m \in 1..2}
RetryConfigs ==
    {[maxRetries |-> r, initialDelayMs |-> PollDelayMs, maxDelayMs |-> 2 * PollDelayMs,
      backoffFactor |-> Ratio(2, 1)] : r \in 0..MaxRetriesBound}

Pending == [ok |-> FALSE, v |-> [t |-> "pending"]]

\* The environments the invocation of call c that is in flight may meet.
EnvChoices(c) ==
    IF script[c] = <<>> THEN UnscriptedEnvs
    ELSE {script[c][Min(invocations[c], Len(script[c]))]}

\* The completions of the invocation of the operation function of call c.
OperationOutcomes(c) == {OperationResult(op[c], e) : e \in EnvChoices(c)}

NoProbe == [fn |-> "none"]

\* No catch block of the call has run yet.
NoSnapshot == [taken |-> FALSE]

\* The state after getInstance() has built the singleton; no call issued.
LimiterInit ==
    /\ now = 0
    /\ activeRequests = 0
    /\ requestTimestamps = <<>>
    /\ pc = [c \in Calls |-> "idle"]
    /\ attempt = [c \in Calls |-> 0]
    /\ due = [c \in Calls |-> 0]
    /\ thrown = [c \in Calls |-> Undef]
    /\ settled = [c \in Calls |-> Pending]
    /\ invocations = [c \in Calls |-> 0]
    /\ backoffs = [c \in Calls |-> 0]
    /\ releases = [c \in Calls |-> 0]
    /\ admissions = <<>>
    /\ backoffDelay = [c \in Calls |-> 0]
    /\ httpRequests = [c \in Calls |-> 0]
    /\ retrySnapshot = [c \in Calls |-> NoSnapshot]
    /\ arrival = [c \in Calls |-> 0]

\* Concurrent runs: every call passes a bare HTTP operation to execute().
Init ==
    /\ LimiterInit
    /\ retryConfig \in RetryConfigs
    /\ rateLimitConfig \in RateLimitConfigs
    /\ op = [c \in Calls |-> "raw"]
    /\ script = [c \in Calls |-> <<>>]
    /\ probe = NoProbe

\* Some call has a continuation in the microtask queue: the await of
\* waitForAvailableSlot() or of executeWithRetry() has been resolved and the
\* code after it has not run yet.  Timer callbacks and the clock wait for
\* the microtask queue to drain.
MicrotaskPending == \E c \in Calls : pc[c] \in {"granted", "returning", "throwing"}

\* One pass of the loop of waitForAvailableSlot: prune, test, and either
\* return (the caller's await resumes in a later microtask) or sleep.
WaitPass(c) ==
    LET kept == cleanupOldTimestamps(requestTimestamps, now, rateLimitConfig)
    IN  /\ requestTimestamps' = kept
        /\ IF SlotAvailable(activeRequests, kept, rateLimitConfig)
           THEN /\ pc' = [pc EXCEPT ![c] = "granted"]
                /\ due' = [due EXCEPT ![c] = 0]
           ELSE /\ pc' = [pc EXCEPT ![c] = "waiting"]
                /\ due' = [due EXCEPT ![c] = (now + PollDelayMs) * Scale]
        /\ UNCHANGED <<now, activeRequests, retryConfig, rateLimitConfig, op, script,
                       attempt, thrown, settled, invocations, backoffs, releases, admissions, backoffDelay, httpRequests, retrySnapshot, probe>>

\* The rank the next call of execute() gets.
NextArrival ==
    1 + CHOOSE m \in {arrival[d] : d \in Calls} : \A d \in Calls : arrival[d] <= m

\* execute(operation) is called: it runs synchronously into
\* waitForAvailableSlot up to the first await.  Calls are issued in index order.
Execute(c) ==
    /\ pc[c] = "idle"
    /\ op[c] \in LimiterOps
    /\ \A d \in Calls : d < c => pc[d] # "idle"
    /\ arrival' = [arrival EXCEPT ![c] = NextArrival]
    /\ WaitPass(c)

\* The delay(100) of a waiting call has elapsed: the loop runs again.
Poll(c) ==
    /\ pc[c] = "waiting"
    /\ ~MicrotaskPending
    /\ now * Scale >= due[c]
    /\ UNCHANGED arrival
    /\ WaitPass(c)

\* The await of waitForAvailableSlot resumes: the slot is taken and
\* executeWithRetry invokes the operation for the first time.
Admit(c) ==
    /\ pc[c] = "granted"
    /\ activeRequests' = activeRequests + 1
    /\ requestTimestamps' = Append(requestTimestamps, now)
    /\ admissions' = Append(admissions, now)
    /\ invocations' = [invocations EXCEPT ![c] = @ + 1]
    /\ pc' = [pc EXCEPT ![c] = "attempting"]
    /\ UNCHANGED <<now, retryConfig, rateLimitConfig, op, script, attempt, due, thrown,
                   settled, backoffs, releases, backoffDelay, httpRequests, retrySnapshot, arrival, probe>>

\* A faulty variant of the token fetch: Auth.generateToken() passes its HTTP
\* GET to execute().
TokenFetchThroughExecute == TRUE

\* Whether Auth.generateToken() goes through execute(): it calls axios.get
\* itself.
TokenFetchRouted == FALSE

\* The token fetch inside the operation function of call c can go ahead:
\* were it routed through execute(), it would have to be admitted while
\* call c holds its slot.
TokenFetchProceeds(c, e) ==
    (TokenFetchRouted /\ op[c] \in {"stk", "payout"} /\ e.valid) =>
        SlotAvailable(activeRequests,
                      cleanupOldTimestamps(requestTimestamps, now, rateLimitConfig),
                      rateLimitConfig)

\* The operation's promise settles and executeWithRetry continues: return
\* the value, or catch the error and either start a backoff delay or rethrow.
OperationSettles(c) ==
    /\ pc[c] = "attempting"
    /\ \E e \in EnvChoices(c), rnd \in Randoms :
        LET outcome == OperationResult(op[c], e)
            delay == calculateBackoff(retryConfig, attempt[c], rnd)
        IN  /\ TokenFetchProceeds(c, e)
            /\ httpRequests' = [httpRequests EXCEPT ![c] = @ + RequestsIssued(op[c], e)]
            /\ IF outcome.ok
               THEN /\ settled' = [settled EXCEPT ![c] = outcome]
                    /\ pc' = [pc EXCEPT ![c] = "returning"]
                    /\ UNCHANGED <<due, thrown, backoffs, backoffDelay, retrySnapshot>>
               ELSE /\ thrown' = [thrown EXCEPT ![c] = outcome.v]
                    /\ retrySnapshot' = [retrySnapshot EXCEPT
                            ![c] = IF @ = NoSnapshot THEN retryConfig ELSE @]
                    /\ IF RetryAllowed(retryConfig, attempt[c], outcome.v)
                       THEN /\ backoffDelay' = [backoffDelay EXCEPT ![c] = delay]
                            /\ due' = [due EXCEPT ![c] = now * Scale + delay]
                            /\ backoffs' = [backoffs EXCEPT ![c] = @ + 1]
                            /\ pc' = [pc EXCEPT ![c] = "backoff"]
                            /\ UNCHANGED settled
                       ELSE /\ settled' = [settled EXCEPT ![c] = Throw(Rethrow(outcome.v))]
                            /\ pc' = [pc EXCEPT ![c] = "throwing"]
                            /\ UNCHANGED <<due, backoffs, backoffDelay>>
    /\ UNCHANGED <<now, activeRequests, requestTimestamps, retryConfig, rateLimitConfig,
                   op, script, attempt, invocations, releases, admissions, arrival, probe>>

\* A faulty variant of the retry: the call goes through execute() again and
\* waits for admission anew.
ResumeThroughExecute == "waiting"

\* Where a call resumes once its backoff delay has elapsed: inside
\* executeWithRetry, at the invocation of the operation.
ResumeAfterBackoff == "attempting"

\* The backoff delay has elapsed: executeWithRetry(operation, attempt + 1)
\* invokes the operation again.
Retry(c) ==
    /\ pc[c] = "backoff"
    /\ ~MicrotaskPending
    /\ now * Scale >= due[c]
    /\ attempt' = [attempt EXCEPT ![c] = @ + 1]
    /\ invocations' = [invocations EXCEPT ![c] = @ + 1]
    /\ due' = [due EXCEPT ![c] = 0]
    /\ pc' = [pc EXCEPT ![c] = ResumeAfterBackoff]
    /\ UNCHANGED <<now, activeRequests, requestTimestamps, retryConfig, rateLimitConfig,
                   op, script, thrown, settled, backoffs, releases, admissions, backoffDelay, httpRequests, retrySnapshot, arrival, probe>>

\* A faulty variant of FinallyFrom: try without finally, the slot is given
\* back after a return only.
FinallyFromReturnOnly == {"returning"}

\* A faulty variant of FinallyFrom: the executor gives up on an operation
\* that does not settle.
FinallyFromWithTimeout == {"returning", "throwing", "stalled"}

\* Where the finally block of execute() is entered from: the return or the
\* throw of executeWithRetry.
FinallyFrom == {"returning", "throwing"}

\* The finally block of execute(): the slot is released and the promise
\* execute() returned settles.
Finally(c) ==
    /\ pc[c] \in FinallyFrom
    /\ activeRequests' = ReleaseSlot(activeRequests)
    /\ releases' = [releases EXCEPT ![c] = @ + 1]
    /\ pc' = [pc EXCEPT ![c] = IF pc[c] = "returning" THEN "resolved" ELSE "rejected"]
    /\ UNCHANGED <<now, requestTimestamps, retryConfig, rateLimitConfig, op, script,
                   attempt, due, thrown, settled, invocations, backoffs, admissions, backoffDelay, httpRequests, retrySnapshot, arrival, probe>>

\* Time passes.
Tick ==
    /\ now < MaxTicks * TickMs
    /\ ~MicrotaskPending
    /\ \E c \in Calls : op[c] # "none" /\ pc[c] \notin {"resolved", "rejected"}
    /\ now' = now + TickMs
    /\ UNCHANGED <<activeRequests, requestTimestamps, retryConfig, rateLimitConfig, pc,
                   op, script, attempt, due, thrown, settled, invocations, backoffs,
                   releases, admissions, backoffDelay, httpRequests, retrySnapshot, arrival, probe>>

Next ==
    \/ \E c \in Calls : Execute(c)
    \/ \E c \in Calls : Poll(c)
    \/ \E c \in Calls : Admit(c)
    \/ \E c \in Calls : OperationSettles(c)
    \/ \E c \in Calls : Retry(c)
    \/ \E c \in Calls : Finally(c)
    \/ Tick

Spec == Init /\ [][Next]_vars

\* ------------------------------------------- operations that never settle

\* The promise the operation of call c returned is never settled:
\* executeWithRetry stays at its await.
OperationStalls(c) ==
    /\ pc[c] = "attempting"
    /\ pc' = [pc EXCEPT ![c] = "stalled"]
    /\ UNCHANGED <<now, activeRequests, requestTimestamps, retryConfig, rateLimitConfig,
                   op, script, attempt, due, thrown, settled, invocations, backoffs,
                   releases, admissions, backoffDelay, httpRequests, retrySnapshot,
                   arrival, probe>>

NextStall ==
    \/ Next
    \/ \E c \in Calls : OperationStalls(c)

\* Concurrent runs in which an operation may never settle.
SpecStall == Init /\ [][NextStall]_vars

\* ------------------------------------------------ calls that keep arriving

\* The client is done with the settled call c and will call execute()
\* again: the index c stands for a call that has not been made yet.
Reissue(c) ==
    /\ pc[c] \in {"resolved", "rejected"}
    /\ pc' = [pc EXCEPT ![c] = "idle"]
    /\ attempt' = [attempt EXCEPT ![c] = 0]
    /\ due' = [due EXCEPT ![c] = 0]
    /\ thrown' = [thrown EXCEPT ![c] = Undef]
    /\ settled' = [settled EXCEPT ![c] = Pending]
    /\ invocations' = [invocations EXCEPT ![c] = 0]
    /\ backoffs' = [backoffs EXCEPT ![c] = 0]
    /\ releases' = [releases EXCEPT ![c] = 0]
    /\ backoffDelay' = [backoffDelay EXCEPT ![c] = 0]
    /\ httpRequests' = [httpRequests EXCEPT ![c] = 0]
    /\ retrySnapshot' = [retrySnapshot EXCEPT ![c] = NoSnapshot]
    /\ UNCHANGED <<now, activeRequests, requestTimestamps, retryConfig, rateLimitConfig,
                   op, script, admissions, arrival, probe>>

\* The two clients that compete for the slot.
Contenders == {1, 2}

\* An endpoint that accepts every request.
Accepting == <<FailTwiceThenSucceed[3]>>

\* A saturated limiter: one slot, a window of one poll interval, no retries.
InitArrivals ==
    /\ LimiterInit
    /\ retryConfig = [maxRetries |-> 0, initialDelayMs |-> PollDelayMs,
                      maxDelayMs |-> 2 * PollDelayMs, backoffFactor |-> Ratio(2, 1)]
    /\ rateLimitConfig = [maxConcurrent |-> 1, timeWindowMs |-> PollDelayMs]
    /\ op = [c \in Calls |-> IF c \in Contenders THEN "raw" ELSE "none"]
    /\ script = [c \in Calls |-> IF c \in Contenders THEN Accepting ELSE <<>>]
    /\ probe = NoProbe

NextArrivals ==
    \/ \E c \in Calls : Execute(c)
    \/ \E c \in Calls : Poll(c)
    \/ \E c \in Calls : Admit(c)
    \/ \E c \in Calls : OperationSettles(c)
    \/ \E c \in Calls : Finally(c)
    \/ \E c \in Calls : Reissue(c)
    \/ Tick

\* Runs in which the client keeps calling execute().
SpecArrivals == InitArrivals /\ [][NextArrivals]_vars

\* ------------------------------------------- configuration changed in flight

\* Arguments of setRetryConfig: the fields to replace.
RetryConfigUpdates ==
    {[maxRetries |-> MaxRetriesBound + 1],
     [initialDelayMs |-> PollDelayMs \div 4, maxDelayMs |-> PollDelayMs \div 2]}

\* { ...config, ...update }; the updates are numbers.
Spread(config, update) ==
    [f \in DOMAIN config |->
        IF f = "nan" THEN config.nan \ DOMAIN update
        ELSE IF f \in DOMAIN update THEN update[f] ELSE config[f]]

\* setRetryConfig(update) is called while some call is in flight.
SetRetryConfig(update) ==
    /\ \E c \in Calls : pc[c] \in {"attempting", "backoff"}
    /\ Spread(retryConfig, update) # retryConfig
    /\ retryConfig' = Spread(retryConfig, update)
    /\ UNCHANGED <<now, activeRequests, requestTimestamps, rateLimitConfig, pc, op, script,
                   attempt, due, thrown, settled, invocations, backoffs, releases,
                   admissions, backoffDelay, httpRequests, retrySnapshot, arrival, probe>>

NextHotSwap ==
    \/ \E c \in Calls : Execute(c) \/ Admit(c) \/ OperationSettles(c) \/ Retry(c) \/ Finally(c)
    \/ Tick
    \/ \E update \in RetryConfigUpdates : SetRetryConfig(update)

\* One call of execute() with a bare HTTP operation.
InitHotSwap ==
    /\ LimiterInit
    /\ retryConfig \in RetryConfigs
    /\ rateLimitConfig \in RateLimitConfigs
    /\ op = [c \in Calls |-> IF c = 1 THEN "raw" ELSE "none"]
    /\ script = [c \in Calls |-> <<>>]
    /\ probe = NoProbe

\* A run during which the retry configuration is replaced.
SpecHotSwap == InitHotSwap /\ [][NextHotSwap]_vars

\* --------------------------------------------------- runs without a horizon

\* An instant a tick earlier, seen from the new present; instants further
\* back than floor are kept at floor.
Earlier(instant, tick, floor) == IF instant - tick < floor THEN floor ELSE instant - tick

\* Time passes without bound.  Instants are held relative to the present,
\* which stays at 0: timers that are due stay due, and timestamps that have
\* left the window are held at its far edge.
Elapse ==
    /\ ~MicrotaskPending
    /\ \E c \in Calls : op[c] # "none" /\ pc[c] \notin {"resolved", "rejected"}
    /\ due' = [c \in Calls |-> Earlier(due[c], TickMs * Scale, 0)]
    /\ requestTimestamps' =
            [i \in DOMAIN requestTimestamps |->
                Earlier(requestTimestamps[i], TickMs, now - rateLimitConfig.timeWindowMs)]
    /\ admissions' =
            [i \in DOMAIN admissions |->
                Earlier(admissions[i], TickMs, now - rateLimitConfig.timeWindowMs)]
    /\ UNCHANGED <<now, activeRequests, retryConfig, rateLimitConfig, pc, op, script,
                   attempt, thrown, settled, invocations, backoffs, releases,
                   backoffDelay, httpRequests, retrySnapshot, arrival, probe>>

\* Two clients call execute() with a bare HTTP operation.
InitFair ==
    /\ LimiterInit
    /\ retryConfig \in RetryConfigs
    /\ rateLimitConfig \in RateLimitConfigs
    /\ op = [c \in Calls |-> IF c \in Contenders THEN "raw" ELSE "none"]
    /\ script = [c \in Calls |-> <<>>]
    /\ probe = NoProbe

NextFair ==
    \/ \E c \in Calls : Execute(c)
    \/ \E c \in Calls : Poll(c)
    \/ \E c \in Calls : Admit(c)
    \/ \E c \in Calls : OperationSettles(c)
    \/ \E c \in Calls : Retry(c)
    \/ \E c \in Calls : Finally(c)
    \/ Elapse

\* Timers fire once they are due, continuations run, time passes, and
\* every invocation of an operation settles.
Fairness ==
    /\ WF_vars(Elapse)
    /\ \A c \in Calls :
        /\ WF_vars(Poll(c))
        /\ WF_vars(Admit(c))
        /\ WF_vars(OperationSettles(c))
        /\ WF_vars(Retry(c))
        /\ WF_vars(Finally(c))

SpecFair == InitFair /\ [][NextFair]_vars /\ Fairness

\* ------------------------------------------- rate limits that admit nothing

\* Values of the environment variables the rate limits are read from.
EnvValues == {"", "0", "-1", "abc"}

\* parseInt(s, 10) of the strings that occur: a number, or NaN.
parseInt(s) ==
    CASE s = "0" -> [nan |-> FALSE, n |-> 0]
      [] s = "-1" -> [nan |-> FALSE, n |-> -1]
      [] s = "1000" -> [nan |-> FALSE, n |-> 1000]
      [] s = "60000" -> [nan |-> FALSE, n |-> 60000]
      [] OTHER -> [nan |-> TRUE, n |-> 0]

\* value || fallback, for strings.
OrDefault(value, fallback) == IF value = "" THEN fallback ELSE value

\* rateLimitConfig of getConfigFromEnv(), for the given values of
\* MPESAJS_MAX_CONCURRENT and MPESAJS_TIME_WINDOW_MS.
getConfigFromEnv(maxConcurrent, timeWindowMs) ==
    LET m == parseInt(OrDefault(maxConcurrent, "1000"))
        w == parseInt(OrDefault(timeWindowMs, "60000"))
    IN  [maxConcurrent |-> m.n, timeWindowMs |-> w.n,
         nan |-> (IF m.nan THEN {"maxConcurrent"} ELSE {})
                 \cup (IF w.nan THEN {"timeWindowMs"} ELSE {})]

\* Arguments of setRateLimitConfig.
RateLimitConfigUpdates == {[maxConcurrent |-> m] : m \in {-1, 0, 1}}

\* setRateLimitConfig(update)
SetRateLimitConfig(update) ==
    /\ Spread(rateLimitConfig, update) # rateLimitConfig
    /\ rateLimitConfig' = Spread(rateLimitConfig, update)
    /\ UNCHANGED <<now, activeRequests, requestTimestamps, retryConfig, pc, op, script,
                   attempt, due, thrown, settled, invocations, backoffs, releases,
                   admissions, backoffDelay, httpRequests, retrySnapshot, arrival, probe>>

\* The singleton is built from an environment that sets
\* MPESAJS_MAX_CONCURRENT; two clients call execute().
InitMisconfigured ==
    /\ LimiterInit
    /\ retryConfig = [maxRetries |-> 0, initialDelayMs |-> PollDelayMs,
                      maxDelayMs |-> 2 * PollDelayMs, backoffFactor |-> Ratio(2, 1)]
    /\ rateLimitConfig \in {getConfigFromEnv(m, "") : m \in EnvValues}
    /\ op = [c \in Calls |-> IF c \in Contenders THEN "raw" ELSE "none"]
    /\ script = [c \in Calls |-> IF c \in Contenders THEN Accepting ELSE <<>>]
    /\ probe = NoProbe

NextMisconfigured ==
    \/ \E c \in Calls : Execute(c) \/ Poll(c) \/ Admit(c) \/ OperationSettles(c) \/ Finally(c)
    \/ Tick
    \/ \E update \in RateLimitConfigUpdates : SetRateLimitConfig(update)

\* Runs under rate limits read from the environment and replaced at will.
SpecMisconfigured == InitMisconfigured /\ [][NextMisconfigured]_vars

\* ------------------------------------------------- the four remote operations

\* maxRetries of the configuration the singleton is built with by default.
DefaultMaxRetries == 3

\* Every kind of call a client can make.
OpKinds == LimiterOps \cup {"auth"}

\* Auth.generateToken() is called: it is not routed through the limiter and
\* issues its HTTP GET at once.
GenerateToken(c) ==
    /\ pc[c] = "idle"
    /\ op[c] = "auth"
    /\ invocations' = [invocations EXCEPT ![c] = @ + 1]
    /\ httpRequests' = [httpRequests EXCEPT ![c] = @ + 1]
    /\ pc' = [pc EXCEPT ![c] = "fetching"]
    /\ UNCHANGED <<now, activeRequests, requestTimestamps, retryConfig, rateLimitConfig,
                   op, script, attempt, due, thrown, settled, backoffs, releases,
                   admissions, backoffDelay, retrySnapshot, arrival, probe>>

\* The HTTP GET settles and generateToken() returns or throws.
TokenSettles(c) ==
    /\ pc[c] = "fetching"
    /\ \E outcome \in OperationOutcomes(c) :
        /\ settled' = [settled EXCEPT ![c] = outcome]
        /\ pc' = [pc EXCEPT ![c] = IF outcome.ok THEN "resolved" ELSE "rejected"]
    /\ UNCHANGED <<now, activeRequests, requestTimestamps, retryConfig, rateLimitConfig,
                   op, script, attempt, due, thrown, invocations, backoffs, releases,
                   admissions, backoffDelay, httpRequests, retrySnapshot, arrival, probe>>

\* One client call of one of the operations against a scripted endpoint,
\* under the default maxRetries and delays short enough for every retry to
\* come due.
InitOps ==
    /\ LimiterInit
    /\ retryConfig = [maxRetries |-> DefaultMaxRetries,
                      initialDelayMs |-> PollDelayMs \div 4,
                      maxDelayMs |-> PollDelayMs \div 2,
                      backoffFactor |-> Ratio(2, 1)]
    /\ rateLimitConfig = [maxConcurrent |-> 1, timeWindowMs |-> 2 * PollDelayMs]
    /\ \E k \in OpKinds : \E sc \in ScriptsOf(k) :
        /\ op = [c \in Calls |-> IF c = 1 THEN k ELSE "none"]
        /\ script = [c \in Calls |-> IF c = 1 THEN sc ELSE <<>>]
    /\ probe = NoProbe

NextOps ==
    \/ \E c \in Calls : Execute(c)
    \/ \E c \in Calls : Admit(c)
    \/ \E c \in Calls : OperationSettles(c)
    \/ \E c \in Calls : Retry(c)
    \/ \E c \in Calls : Finally(c)
    \/ \E c \in Calls : GenerateToken(c)
    \/ \E c \in Calls : TokenSettles(c)
    \/ Tick

SpecOps == InitOps /\ [][NextOps]_vars

\* ------------------------------------------------------- the pure functions

\* The plain objects that carry any subset of the given fields, each with
\* one of the given values.
Objects(fields, vals) ==
    {Obj([k \in S |-> f[k]]) : S \in SUBSET fields, f \in [fields -> vals]}

\* Arguments that are not a response body at all.
Shapeless == {Undef, Null, EmptyObj, Str(""), Str("Bad Gateway"), Num(0)}

AuthInputs ==
    Shapeless
    \cup {Obj([resultCode |-> rc]) :
            rc \in {Undef, Null, Str(""), Str("999991"), Num(999991)}}
    \cup {Obj([resultCode |-> rc, resultDesc |-> rd]) :
            rc \in {Undef, Null, Str(""), Str("999991"), Str("999996"), Str("999997"),
                    Str("999998"), Str("999999"), Str("500"), Num(999991)},
            rd \in {Null, Str(""), Str("Invalid client id")}}

StkCallbacks ==
    {Null, EmptyObj, Str("x")}
    \cup {Obj([ResultCode |-> rc, ResultDesc |-> Str("Request cancelled by user"),
               MerchantRequestID |-> Str("m1"), CheckoutRequestID |-> Str("c1")]) :
            rc \in {Str("TP40087"), Str("17"), Str("1032")}}

\* Payloads that match several of the shapes the STK Push classifier knows.
StkOverlaps ==
    UNION {{Obj([ResponseCode |-> rc, Envelope |-> e, request |-> EmptyObj]),
            Obj([ResponseCode |-> rc, ResponseDescription |-> Str("Rejected"),
                 Envelope |-> e]),
            Obj([Envelope |-> e, request |-> EmptyObj])} :
           rc \in {Str(""), Str("1")},
           e \in {Obj([Body |-> Obj([stkCallback |-> cb])]) : cb \in StkCallbacks}}

StkInputs ==
    Shapeless
    \cup StkOverlaps
    \cup Objects({"ResponseCode", "ResponseDescription", "CustomerMessage", "request"},
                 {Null, Str(""), Str("1")})
    \cup {Obj([Envelope |-> e]) :
            e \in {Undef, Null, EmptyObj, Str("x"), Obj([Body |-> Null]),
                   Obj([Body |-> EmptyObj])}
                  \cup {Obj([Body |-> Obj([stkCallback |-> cb])]) : cb \in StkCallbacks}}

PayoutInputs ==
    Shapeless
    \cup Objects({"ResponseCode", "ResponseDescription", "errorCode", "errorMessage",
                  "request"},
                 {Str(""), Str("0"), Str("1")})
    \cup {Obj([message |-> m]) : m \in {Null, Str(""), Str("socket hang up")}}
    \cup {Obj([errorCode |-> Str(code), errorMessage |-> m, requestId |-> Str("r1")]) :
            code \in {"401.002.01", "500.001.1001", "403.001.01", "404.001.03"},
            m \in {Undef, Str(""), Str("Invalid Access Token"), Str("Token has expired")}}

RegisterInputs ==
    Shapeless
    \cup {Obj([header |-> h]) :
            h \in {Undef, Null, EmptyObj, Str("x"),
                   Obj([responseCode |-> Str("400")]),
                   Obj([responseCode |-> Str("400"),
                        responseMessage |-> Str("Short code already registered")])}}
    \cup Objects({"errorCode", "errorMessage", "request", "message"},
                 {Null, Str(""), Str("1")})

Classifiers == {"auth", "stk", "payout", "register"}

\* The payout classifier of errorHandler.ts.
LegacyClassifiers == {"payoutLegacy"}

ClassifierInputs(fn) ==
    CASE fn = "auth" -> AuthInputs
      [] fn = "stk" -> StkInputs
      [] fn \in {"payout", "payoutLegacy"} -> PayoutInputs
      [] OTHER -> RegisterInputs

\* The value the classifier of the given kind throws on error.
ClassifierResult(fn, error) ==
    CASE fn = "auth" -> AuthenticationErrorHandler(error)
      [] fn = "stk" -> StkPushErrorHandler(error)
      [] fn = "payout" -> PayoutErrorHandler(error)
      [] fn = "payoutLegacy" -> handlePayoutError(error)
      [] OTHER -> RegisterUrlErrorHandler(error)

\* HTTP statuses a response can carry.
Statuses == 100..599

\* Failures an operation may throw at the retry loop.
ThrownValues ==
    {AxiosError("Request failed", Str("ERR_BAD_RESPONSE"), st, Undef, TRUE) : st \in Statuses}
    \cup {HttpTimeout, HttpSetupError, PlainError, JsTypeError}
    \cup {NewError(class, Str("failed"), <<>>) : class \in Taxonomy}
    \cup {Undef, Str("failed")}

\* Completions of axios.get the token endpoint's answers are drawn from.
TokenCompletions ==
    GetCompletions
    \cup {Ret(Response(b)) : b \in AuthInputs}
    \cup {Throw(AxiosError("Request failed", Str("ERR_BAD_REQUEST"), 400, b, TRUE)) :
            b \in AuthInputs}
    \cup {Throw(HttpSetupError)}

\* The largest attempt number a backoff is computed for.
MaxAttempt == 3

\* Retry configurations with maxDelayMs >= initialDelayMs > 0 and
\* backoffFactor > 1, for which backoffFactor^attempt * initialDelayMs is a
\* whole number up to MaxAttempt + 1.
BackoffConfigs ==
    {[maxRetries |-> DefaultMaxRetries, initialDelayMs |-> i, maxDelayMs |-> m,
      backoffFactor |-> f] :
        i \in {100, 400}, m \in {400, 600, 1000, 10000},
        f \in {Ratio(2, 1), Ratio(3, 2), Ratio(3, 1)}}

\* A pair of consecutive attempts, each with its own Math.random() outcome.
BackoffInputs ==
    {[cfg |-> cfg, attempt |-> a, rnd |-> r, rndNext |-> rn] :
        cfg \in {b \in BackoffConfigs : b.initialDelayMs = 400 \/ b.backoffFactor.den = 1},
        a \in 0..MaxAttempt, r \in Randoms, rn \in Randoms}

Probes ==
    {[fn |-> "calculateBackoff", arg |-> b, done |-> FALSE, result |-> Undef] :
        b \in BackoffInputs}
    \cup UNION {{[fn |-> fn, arg |-> a, done |-> FALSE, result |-> Undef] :
                a \in ClassifierInputs(fn)} : fn \in Classifiers \cup LegacyClassifiers}
    \cup {[fn |-> "shouldRetry", arg |-> e, done |-> FALSE, result |-> Undef] :
            e \in ThrownValues}
    \cup {[fn |-> "generateToken", arg |-> g, done |-> FALSE, result |-> Undef] :
            g \in TokenCompletions}

\* One application of one pure function to one argument.
InitPure ==
    /\ LimiterInit
    /\ retryConfig = [maxRetries |-> DefaultMaxRetries, initialDelayMs |-> PollDelayMs,
                      maxDelayMs |-> 2 * PollDelayMs, backoffFactor |-> Ratio(2, 1)]
    /\ rateLimitConfig = [maxConcurrent |-> 1, timeWindowMs |-> 2 * PollDelayMs]
    /\ op = [c \in Calls |-> "none"]
    /\ script = [c \in Calls |-> <<>>]
    /\ probe \in Probes

\* A classifier is handed a failure payload.
Classify ==
    /\ probe.fn \in Classifiers \cup LegacyClassifiers
    /\ ~probe.done
    /\ probe' = [probe EXCEPT !.done = TRUE, !.result = ClassifierResult(probe.fn, probe.arg)]
    /\ UNCHANGED <<now, activeRequests, requestTimestamps, retryConfig, rateLimitConfig,
                   pc, op, script, attempt, due, thrown, settled, invocations, backoffs,
                   releases, admissions, backoffDelay, httpRequests, retrySnapshot, arrival>>

\* The retry loop asks whether a failure is eligible for retry.
DecideRetry ==
    /\ probe.fn = "shouldRetry"
    /\ ~probe.done
    /\ probe' = [probe EXCEPT !.done = TRUE, !.result = Bool(shouldRetry(probe.arg))]
    /\ UNCHANGED <<now, activeRequests, requestTimestamps, retryConfig, rateLimitConfig,
                   pc, op, script, attempt, due, thrown, settled, invocations, backoffs,
                   releases, admissions, backoffDelay, httpRequests, retrySnapshot, arrival>>

\* Auth.generateToken() runs against one answer of the token endpoint.
FetchToken ==
    /\ probe.fn = "generateToken"
    /\ ~probe.done
    /\ probe' = [probe EXCEPT !.done = TRUE, !.result = generateToken(probe.arg)]
    /\ UNCHANGED <<now, activeRequests, requestTimestamps, retryConfig, rateLimitConfig,
                   pc, op, script, attempt, due, thrown, settled, invocations, backoffs,
                   releases, admissions, backoffDelay, httpRequests, retrySnapshot, arrival>>

\* calculateBackoff(attempt) and calculateBackoff(attempt + 1) are computed.
ComputeBackoff ==
    /\ probe.fn = "calculateBackoff"
    /\ ~probe.done
    /\ probe' = [probe EXCEPT
            !.done = TRUE,
            !.result = [delay |-> calculateBackoff(probe.arg.cfg, probe.arg.attempt,
                                                   probe.arg.rnd),
                        next |-> calculateBackoff(probe.arg.cfg, probe.arg.attempt + 1,
                                                  probe.arg.rndNext)]]
    /\ UNCHANGED <<now, activeRequests, requestTimestamps, retryConfig, rateLimitConfig,
                   pc, op, script, attempt, due, thrown, settled, invocations, backoffs,
                   releases, admissions, backoffDelay, httpRequests, retrySnapshot, arrival>>

NextPure ==
    \/ Classify
    \/ DecideRetry
    \/ FetchToken
    \/ ComputeBackoff

SpecPure == InitPure /\ [][NextPure]_vars

\* ------------------------------------------------------------- properties

InFlight == {"attempting", "backoff", "returning", "throwing"}
Settled == {"resolved", "rejected"}

\* The admissions that fall in the trailing window ending now.
AdmittedInWindow ==
    {i \in DOMAIN admissions : now - admissions[i] < rateLimitConfig.timeWindowMs}

\* C1: in every reachable state the number of admitted operations that have
\* not finished, activeRequests, is at most maxConcurrent.
C1_ActiveWithinMaxConcurrent == activeRequests <= rateLimitConfig.maxConcurrent

\* Two execute() calls made in the same turn with maxConcurrent = 1 both
\* hold a slot.
C1_BothAdmitted ==
    /\ rateLimitConfig.maxConcurrent = 1
    /\ activeRequests = 2
    /\ \A c \in {1, 2} : pc[c] = "attempting"

\* C2: the number of admissions in the trailing window of timeWindowMs
\* milliseconds never exceeds maxConcurrent.
C2_AdmissionsWithinWindow ==
    Cardinality(AdmittedInWindow) <= rateLimitConfig.maxConcurrent

\* Two admissions at the same instant under maxConcurrent = 1, both
\* recorded by the limiter itself.
C2_TwoAdmissionsAtOnce ==
    /\ rateLimitConfig.maxConcurrent = 1
    /\ admissions = <<0, 0>>
    /\ requestTimestamps = <<0, 0>>
    /\ now = 0

\* C3: every admitted call releases its slot exactly once, when it settles
\* (by success, by a failure that is not retried, or by exhausted retries),
\* and never before; activeRequests counts exactly the admitted calls that
\* have not released, so it is never negative.
C3_SlotReleasedExactlyOnce ==
    /\ activeRequests >= 0
    /\ activeRequests = Cardinality({c \in Calls : pc[c] \in InFlight})
    /\ \A c \in Calls : releases[c] = IF pc[c] \in Settled THEN 1 ELSE 0

\* One call has resolved and another has been rejected after its retries
\* ran out; both slots are free again.
C3_BothReleased ==
    /\ retryConfig.maxRetries > 0
    /\ \E c, d \in Calls :
        /\ pc[c] = "resolved" /\ releases[c] = 1
        /\ pc[d] = "rejected" /\ releases[d] = 1
        /\ attempt[d] = retryConfig.maxRetries /\ shouldRetry(thrown[d])
    /\ activeRequests = 0

\* C6: a call invokes its operation at most maxRetries + 1 times; it waits
\* for a further invocation only after an eligible failure at an attempt
\* below maxRetries; otherwise the failure propagates with no further
\* invocation and no further backoff.
C6_BoundedRetries ==
    \A c \in Calls :
        /\ invocations[c] <= retryConfig.maxRetries + 1
        /\ pc[c] \in InFlight \cup Settled => invocations[c] = attempt[c] + 1
        /\ pc[c] = "backoff" =>
            /\ shouldRetry(thrown[c])
            /\ attempt[c] < retryConfig.maxRetries
            /\ backoffs[c] = attempt[c] + 1
        /\ pc[c] \in InFlight \cup Settled /\ pc[c] # "backoff" => backoffs[c] = attempt[c]
        /\ pc[c] \in {"throwing", "rejected"} =>
            (~shouldRetry(thrown[c]) \/ attempt[c] >= retryConfig.maxRetries)

\* A call was rejected with an eligible failure once its retries ran out,
\* and another with a failure that is not eligible, at its first attempt.
C6_ExhaustedAndIneligible ==
    /\ retryConfig.maxRetries > 0
    /\ \E c, d \in Calls :
        /\ pc[c] = "rejected" /\ shouldRetry(thrown[c])
        /\ invocations[c] = retryConfig.maxRetries + 1
        /\ backoffs[c] = retryConfig.maxRetries
        /\ pc[d] = "rejected" /\ ~shouldRetry(thrown[d])
        /\ invocations[d] = 1 /\ backoffs[d] = 0

\* C8: once the retry loop gives up, execute() rejects with exactly the
\* value the last invocation of the operation threw.
C8_RejectsWithLastThrown ==
    \A c \in Calls :
        pc[c] \in {"throwing", "rejected"} => settled[c] = Throw(thrown[c])

\* A call was retried after a 503 and then rejected with the plain Error
\* its second invocation threw.
C8_RejectedAfterRetry ==
    \E c \in Calls :
        /\ pc[c] = "rejected"
        /\ invocations[c] = 2
        /\ thrown[c] = PlainError
        /\ settled[c] = Throw(PlainError)

\* The body the endpoint of FailTwiceThenSucceed accepts the request with.
AcceptedBody == Get(FailTwiceThenSucceed[3].post.v, "data")

\* C4: with maxRetries = 3, a StkPush.sendStkPush call whose HTTP request
\* fails twice with status 503 and then succeeds resolves to the success
\* value, after exactly two backoff delays.
C4_StkPushRetriesThenSucceeds ==
    \A c \in Calls :
        (op[c] = "stk" /\ script[c] = FailTwiceThenSucceed /\ pc[c] \in Settled) =>
            /\ pc[c] = "resolved"
            /\ settled[c] = Ret(AcceptedBody)
            /\ backoffs[c] = 2

\* The call is rejected with the NetworkError its own catch block made of
\* the first 503: one invocation, no backoff.
C4_RejectedAtFirst503 ==
    \E c \in Calls :
        /\ op[c] = "stk" /\ script[c] = FailTwiceThenSucceed
        /\ retryConfig.maxRetries = 3
        /\ pc[c] = "rejected"
        /\ InstanceOf(settled[c].v, "NetworkError")
        /\ invocations[c] = 1 /\ backoffs[c] = 0

\* C7: every rejection of Auth.generateToken, StkPush.sendStkPush,
\* Payout.send and RegisterUrl.register is an error of one of the seven
\* kinds of the taxonomy, whatever the underlying call throws.
C7_RejectionsAreTyped ==
    \A c \in Calls :
        (op[c] \in {"auth", "stk", "payout", "register"} /\ pc[c] = "rejected") =>
            /\ settled[c].v.t = "error"
            /\ settled[c].v.class \in Taxonomy

\* Payout.send is rejected with the plain Error its HTTP POST threw.
C7_PayoutRejectsPlainError ==
    \E c \in Calls :
        /\ op[c] = "payout"
        /\ pc[c] = "rejected"
        /\ settled[c] = Throw(PlainError)

\* The failures that are eligible for retry: errors of the HTTP client
\* with no response, or with status 429, 503, 504 or any of 500..599.
Eligible(error) ==
    /\ InstanceOf(error, "AxiosError")
    /\ LET response == Get(error, "response")
       IN  \/ response = Undef
           \/ \E n \in {429, 503, 504} \cup 500..599 : Get(response, "status") = Num(n)

\* C5: shouldRetry is true exactly for the eligible failures; it is false
\* for every other status and for every error that does not come from the
\* HTTP client, the typed errors of the taxonomy included.
C5_ShouldRetryExactlyEligible ==
    (probe.fn = "shouldRetry" /\ probe.done) => probe.result = Bool(Eligible(probe.arg))

\* shouldRetry has answered true to a 429.
C5_RetriesOn429 ==
    /\ probe.fn = "shouldRetry" /\ probe.done
    /\ InstanceOf(probe.arg, "AxiosError")
    /\ Get(Get(probe.arg, "response"), "status") = Num(429)
    /\ probe.result = Bool(TRUE)

\* C9: each of the four classifiers throws an error of the taxonomy on
\* every input: undefined, null, the empty object, objects that carry only
\* some of the recognised fields.
C9_ClassifiersTotal ==
    (probe.fn \in Classifiers /\ probe.done) =>
        /\ probe.result.t = "error"
        /\ probe.result.class \in Taxonomy

\* The STK Push classifier was handed undefined and threw its unknown-error
\* StkPushError.
C9_ClassifiedUndefined ==
    /\ probe.fn = "stk" /\ probe.done
    /\ probe.arg = Undef
    /\ InstanceOf(probe.result, "StkPushError")
    /\ Get(probe.result, "message") = Str("Unknown STK Push error occurred")

AuthError(message, code) ==
    [t |-> "error", class |-> "AuthenticationError",
     o |-> [message |-> Str(message), errorCode |-> code]]

\* The fixed message of each known result code.
AuthMessage(code) ==
    CASE code = "999991" -> "Invalid client id passed. Please input the correct username."
      [] code = "999996" -> "Invalid Authentication passed. Please select type as Basic Auth."
      [] code = "999997" -> "Invalid Authorization Header. Please input the correct password."
      [] code = "999998" ->
            "Required parameter [grant_type] is invalid or empty. Please select grant type as client credentials."

KnownAuthCodes == {"999991", "999996", "999997", "999998"}

UnknownAuthError == AuthError("Unknown authentication error occurred", Undef)

\* The authentication error a payload is classified as, where Present says
\* which result codes count as present.
AuthClassification(payload, present) ==
    LET code == OptGet(payload, "resultCode")
    IN  IF code \in {Str(k) : k \in KnownAuthCodes} THEN AuthError(AuthMessage(code.s), code)
        ELSE IF present
        THEN AuthError("Unknown Auth Error: " \o ToStr(OptGet(payload, "resultDesc")), code)
        ELSE UnknownAuthError

\* The payload Auth.generateToken classifies, if the answer of the token
\* endpoint leads it to classify one.
ClassifiedPayload(get) == Get(Get(get.v, "response"), "data")
IsErrorResponse(get) ==
    ~get.ok /\ InstanceOf(get.v, "AxiosError") /\ Truthy(ClassifiedPayload(get))
LacksToken(get) ==
    get.ok /\ ~Truthy(OptGet(Get(get.v, "data"), "access_token"))

\* The statement of C10 with a given reading of "present".
AuthClassifiedAs(present) ==
    /\ (probe.fn = "auth" /\ probe.done) =>
            probe.result = AuthClassification(probe.arg, present)
    /\ (probe.fn = "generateToken" /\ probe.done /\ IsErrorResponse(probe.arg)) =>
            probe.result =
                Throw(AuthClassification(ClassifiedPayload(probe.arg), present))
    /\ (probe.fn = "generateToken" /\ probe.done /\ LacksToken(probe.arg)) =>
            probe.result = Throw(UnknownAuthError)

\* C10 as stated: result codes 999991, 999996, 999997 and 999998 yield
\* their fixed messages and carry the code; any other present resultCode
\* yields 'Unknown Auth Error: <resultDesc>' with the code; an absent
\* resultCode, and a successful response without access_token, yield
\* 'Unknown authentication error occurred' with no code.
C10_AuthClassificationAsStated ==
    LET payload == IF probe.fn = "auth" THEN probe.arg ELSE ClassifiedPayload(probe.arg)
    IN  AuthClassifiedAs(~Nullish(OptGet(payload, "resultCode")))

\* C10 amended: "present" means truthy.  The four codes, as strings, yield
\* their fixed messages and carry the code; any other truthy resultCode
\* yields 'Unknown Auth Error: <resultDesc>' with the code; an absent or
\* falsy resultCode (the empty string, null), and a successful response
\* without access_token, yield 'Unknown authentication error occurred' with
\* no code.
C10_AuthClassification ==
    LET payload == IF probe.fn = "auth" THEN probe.arg ELSE ClassifiedPayload(probe.arg)
    IN  AuthClassifiedAs(Truthy(OptGet(payload, "resultCode")))

\* The classifier was handed an empty resultCode next to a description and
\* threw the unknown-error AuthenticationError without a code.
C10_EmptyCodeIsUnknown ==
    /\ probe.fn = "auth" /\ probe.done
    /\ Get(probe.arg, "resultCode") = Str("")
    /\ Get(probe.arg, "resultDesc") = Str("Invalid client id")
    /\ probe.result = UnknownAuthError

\* The one answer the endpoint of call c gives, for a call whose arguments
\* are valid and whose token fetch succeeds.
Answer(c) == script[c][1].post
Answered(c) ==
    /\ Len(script[c]) = 1
    /\ script[c][1].valid
    /\ script[c][1].get = Ret(TokenResponse)

\* The raw failure the answer carries: the body of a response that is not a
\* success, or the body that comes with a failed request.
RawFailure(c) ==
    IF Answer(c).ok THEN Get(Answer(c).v, "data")
    ELSE OptGet(Get(Answer(c).v, "response"), "data")

\* The answer of call c is a response, or an error of the HTTP client.
IsHttpAnswer(c) == Answer(c).ok \/ InstanceOf(Answer(c).v, "AxiosError")

ResponseCodePresent(c) == ~Nullish(OptGet(RawFailure(c), "ResponseCode"))
ResponseCodeTruthy(c) == Truthy(OptGet(RawFailure(c), "ResponseCode"))
ResponseDescriptionOf(c) == Get(RawFailure(c), "ResponseDescription")
ResponseDescriptionOrDefault(c) ==
    IF Truthy(ResponseDescriptionOf(c)) THEN ResponseDescriptionOf(c)
    ELSE Str("Payout error occurred")

\* The statement of C11.  As stated, it speaks of every present
\* ResponseCode and expects ResponseDescription as the message; otherwise
\* of every truthy ResponseCode, with the default message as a fallback.
PayoutFailureClassified(asStated) ==
    \A c \in Calls :
        (/\ op[c] = "payout" /\ Answered(c) /\ IsHttpAnswer(c)
         /\ pc[c] \in Settled
         /\ IF asStated THEN ResponseCodePresent(c) ELSE ResponseCodeTruthy(c)
         /\ Get(RawFailure(c), "ResponseCode") # Str("0")) =>
            /\ pc[c] = "rejected"
            /\ InstanceOf(settled[c].v, "PayoutError")
            /\ Get(settled[c].v, "message") =
                    IF asStated THEN ResponseDescriptionOf(c)
                    ELSE ResponseDescriptionOrDefault(c)
            /\ Get(settled[c].v, "responseCode") = Get(RawFailure(c), "ResponseCode")
            /\ Get(settled[c].v, "conversationId") = Get(RawFailure(c), "ConversationID")
            /\ invocations[c] = 1
            /\ backoffs[c] = 0

\* C11 as stated: a payout failure with a present top-level ResponseCode
\* other than '0' is rejected with a PayoutError whose message is
\* ResponseDescription, whose responseCode is the ResponseCode and whose
\* conversationId is ConversationID, and the operation is not retried.
C11_PayoutResponseCodeAsStated ==
    PayoutFailureClassified(TRUE)

\* C11 amended: a payout failure with a truthy (non-empty) top-level
\* ResponseCode other than '0' is rejected with a PayoutError whose message
\* is ResponseDescription, or 'Payout error occurred' when ResponseDescription
\* is absent or empty, whose responseCode is the ResponseCode and whose
\* conversationId is ConversationID, and the operation is not retried.
C11_PayoutResponseCode ==
    PayoutFailureClassified(FALSE)

\* Payout.send was rejected with the PayoutError for 'Insufficient funds'
\* after a single invocation.
C11_InsufficientFunds ==
    \E c \in Calls :
        /\ op[c] = "payout" /\ Answered(c) /\ pc[c] = "rejected"
        /\ RawFailure(c) = Obj([ResponseCode |-> Str("1"),
                                ResponseDescription |-> Str("Insufficient funds"),
                                ConversationID |-> Str("abc")])
        /\ InstanceOf(settled[c].v, "PayoutError")
        /\ Get(settled[c].v, "message") = Str("Insufficient funds")
        /\ Get(settled[c].v, "responseCode") = Str("1")
        /\ Get(settled[c].v, "conversationId") = Str("abc")
        /\ invocations[c] = 1

\* The fixed table of API-level payout error codes.
PayoutTableCodes == {"401.002.01", "500.001.1001", "403.001.01"}
PayoutTableMessage(code) ==
    CASE code = "401.002.01" -> "Invalid Access Token"
      [] code = "500.001.1001" -> "System Error"
      [] code = "403.001.01" -> "Access Denied - Invalid Credentials"

\* A payout classifier was handed a payload with no non-zero top-level
\* ResponseCode and an API-level errorCode.
ApiLevelPayoutFailure ==
    /\ probe.done
    /\ ~Truthy(NonZeroResponseCode(probe.arg))
    /\ Truthy(OptGet(probe.arg, "errorCode"))

\* C12: when no non-zero top-level response code is present but an
\* API-level errorCode is, payout classification gives the codes 401.002.01,
\* 500.001.1001 and 403.001.01 the message of the fixed table, whatever the
\* raw errorMessage says; only other codes fall back to the raw errorMessage.
C12_PayoutTableLookup ==
    (probe.fn \in {"payout", "payoutLegacy"} /\ ApiLevelPayoutFailure) =>
        LET code == Get(probe.arg, "errorCode")
        IN  /\ InstanceOf(probe.result, "PayoutError")
            /\ Get(probe.result, "message") =
                IF code \in {Str(k) : k \in PayoutTableCodes}
                THEN Str(PayoutTableMessage(code.s))
                ELSE Or(Get(probe.arg, "errorMessage"), Str("Unknown error occurred"))

\* PayoutErrorHandler.handle, the classifier Payout.send calls, was handed
\* errorCode 401.002.01 and answered with the raw errorMessage.
C12_RawMessageForTableCode ==
    /\ probe.fn = "payout" /\ ApiLevelPayoutFailure
    /\ Get(probe.arg, "errorCode") = Str("401.002.01")
    /\ Get(probe.arg, "errorMessage") = Str("Token has expired")
    /\ Get(probe.result, "message") = Str("Token has expired")

\* The message an Error holds when it is built with message v.
ErrorMessage(v) == IF v = Undef THEN Str("") ELSE Str(ToStr(v))

\* The shapes of a push-payment failure payload.
HasResponseCode(e) == Truthy(OptGet(e, "ResponseCode"))
CallbackOf(e) == OptGet(OptGet(OptGet(e, "Envelope"), "Body"), "stkCallback")
HasCallback(e) == Truthy(CallbackOf(e))
HasRequest(e) == Truthy(OptGet(e, "request"))

\* C13: push-payment classification applies its shapes in a fixed
\* precedence: (1) a top-level ResponseCode gives a StkPushError whose message
\* is ResponseDescription, else CustomerMessage, else a default string;
\* (2) else a callback envelope gives a StkPushError with the fixed messages
\* for ResultCode TP40087 and 17 and the callback's ResultDesc otherwise;
\* (3) else a no-response indication gives a NetworkError; (4) otherwise a
\* StkPushError with a generic message.
C13_StkPrecedence ==
    (probe.fn = "stk" /\ probe.done) =>
        LET e == probe.arg
            r == probe.result
            cb == CallbackOf(e)
        IN  CASE HasResponseCode(e) ->
                    /\ InstanceOf(r, "StkPushError")
                    /\ Get(r, "responseCode") = Get(e, "ResponseCode")
                    /\ Get(r, "message") =
                        IF Truthy(Get(e, "ResponseDescription"))
                        THEN Get(e, "ResponseDescription")
                        ELSE IF Truthy(Get(e, "CustomerMessage"))
                        THEN Get(e, "CustomerMessage")
                        ELSE Str("STK Push error occurred")
              [] ~HasResponseCode(e) /\ HasCallback(e) ->
                    /\ InstanceOf(r, "StkPushError")
                    /\ Get(r, "responseCode") = Get(cb, "ResultCode")
                    /\ Get(r, "message") =
                        CASE Get(cb, "ResultCode") = Str("TP40087") ->
                                Str("User entered wrong M-PESA PIN. Please try again with correct PIN.")
                          [] Get(cb, "ResultCode") = Str("17") ->
                                Str("M-PESA system internal error. Please try again after a few minutes.")
                          [] OTHER -> ErrorMessage(Get(cb, "ResultDesc"))
              [] ~HasResponseCode(e) /\ ~HasCallback(e) /\ HasRequest(e) ->
                    /\ InstanceOf(r, "NetworkError")
                    /\ Get(r, "message") = Str(NoResponseMessage)
              [] OTHER ->
                    /\ InstanceOf(r, "StkPushError")
                    /\ Get(r, "message") = Str("Unknown STK Push error occurred")

\* A payload that matches all three shapes was classified by the first.
C13_AllShapesAtOnce ==
    /\ probe.fn = "stk" /\ probe.done
    /\ HasResponseCode(probe.arg) /\ HasCallback(probe.arg) /\ HasRequest(probe.arg)
    /\ Get(CallbackOf(probe.arg), "ResultCode") = Str("TP40087")
    /\ InstanceOf(probe.result, "StkPushError")
    /\ Get(probe.result, "responseCode") = Str("1")
    /\ Get(probe.result, "message") = Str("STK Push error occurred")

\* The HTTP POST of call c was made and received no response.
NoResponseReceived(c) ==
    /\ Answered(c)
    /\ ~Answer(c).ok
    /\ InstanceOf(Answer(c).v, "AxiosError")
    /\ Get(Answer(c).v, "response") = Undef
    /\ Get(Answer(c).v, "request") # Undef

\* C14: for each of StkPush.sendStkPush, Payout.send and
\* RegisterUrl.register, an HTTP request that receives no response is
\* surfaced as a NetworkError with the message 'No response received from
\* the API', never as the error kind of the operation.
C14_NoResponseIsNetworkError ==
    \A c \in Calls :
        (op[c] \in {"stk", "payout", "register"} /\ NoResponseReceived(c)
            /\ pc[c] \in Settled) =>
            /\ pc[c] = "rejected"
            /\ InstanceOf(settled[c].v, "NetworkError")
            /\ Get(settled[c].v, "message") = Str(NoResponseMessage)

\* Payout.send whose POST received no response is rejected with a
\* PayoutError.
C14_PayoutNoResponseIsPayoutError ==
    \E c \in Calls :
        /\ op[c] = "payout" /\ NoResponseReceived(c)
        /\ pc[c] = "rejected"
        /\ InstanceOf(settled[c].v, "PayoutError")
        /\ Get(settled[c].v, "message")
            = Str("Unknown Payout error occurred: No error details available")

HttpsRequired == "Both confirmation and validation URLs must use HTTPS protocol"

\* C15: RegisterUrl.register called with a confirmation or validation URL
\* that does not start with 'https://' rejects with a ValidationError whose
\* message is 'Both confirmation and validation URLs must use HTTPS
\* protocol', before any HTTP request is issued.
C15_NonHttpsIsValidationError ==
    \A c \in Calls :
        (op[c] = "register" /\ ~script[c][1].valid /\ pc[c] \in Settled) =>
            /\ pc[c] = "rejected"
            /\ InstanceOf(settled[c].v, "ValidationError")
            /\ Get(settled[c].v, "message") = Str(HttpsRequired)
            /\ httpRequests[c] = 0

\* RegisterUrl.register with a non-HTTPS URL is rejected, without an HTTP
\* request, with an MpesaError that is no ValidationError and whose message
\* carries a prefix.
C15_NonHttpsIsWrappedMpesaError ==
    \E c \in Calls :
        /\ op[c] = "register" /\ ~script[c][1].valid
        /\ pc[c] = "rejected"
        /\ settled[c].v.class = "MpesaError"
        /\ ~InstanceOf(settled[c].v, "ValidationError")
        /\ Get(settled[c].v, "message")
            = Str("Failed to register URLs: " \o HttpsRequired)
        /\ httpRequests[c] = 0

\* min(initialDelay * backoffFactor^attempt, maxDelay), in milliseconds.
BackoffBase(cfg, a) ==
    Min((cfg.initialDelayMs * Pow(cfg.backoffFactor.num, a))
            \div Pow(cfg.backoffFactor.den, a),
        cfg.maxDelayMs)

\* C16: the delay waited before retry number k (k >= 1) of a call is
\* computed with attempt = k - 1 and lies in [0.75 * base, 1.25 * base],
\* where base = min(initialDelay * backoffFactor^(k-1), maxDelay); the first
\* retry uses base = min(initialDelay, maxDelay).
C16_RetryDelayWithinJitterBand ==
    \A c \in Calls :
        pc[c] = "backoff" =>
            LET k == backoffs[c]
                base == BackoffBase(retryConfig, k - 1)
            IN  /\ k >= 1
                /\ attempt[c] = k - 1
                /\ k = 1 => base = Min(retryConfig.initialDelayMs, retryConfig.maxDelayMs)
                /\ (3 * base * Scale) \div 4 <= backoffDelay[c]
                /\ backoffDelay[c] <= (5 * base * Scale) \div 4

\* A call waits before its second retry, for longer than the upper end of
\* the band of its first retry.
C16_SecondRetryDelay ==
    \E c \in Calls :
        /\ pc[c] = "backoff"
        /\ backoffs[c] = 2
        /\ BackoffBase(retryConfig, 1) = 2 * BackoffBase(retryConfig, 0)
        /\ backoffDelay[c] > (5 * BackoffBase(retryConfig, 0) * Scale) \div 4

\* The delay lies in the jitter band around the given base.
InJitterBand(delay, base) ==
    /\ (3 * base * Scale) \div 4 <= delay
    /\ delay <= (5 * base * Scale) \div 4

\* The statement of C17.  As stated, the delay of attempt + 1 is at least
\* the delay of attempt for every pair of jitter outcomes while attempt is
\* short of saturation; otherwise, for equal jitter outcomes.
BackoffMonotone(asStated) ==
    (probe.fn = "calculateBackoff" /\ probe.done) =>
        LET cfg == probe.arg.cfg
            a == probe.arg.attempt
            saturated == BackoffBase(cfg, a) = cfg.maxDelayMs
        IN  /\ IF asStated
               THEN ~saturated => probe.result.delay <= probe.result.next
               ELSE /\ BackoffBase(cfg, a) <= BackoffBase(cfg, a + 1)
                    /\ InJitterBand(probe.result.delay, BackoffBase(cfg, a))
                    /\ probe.arg.rnd = probe.arg.rndNext
                        => probe.result.delay <= probe.result.next
            /\ saturated =>
                /\ InJitterBand(probe.result.delay, cfg.maxDelayMs)
                /\ InJitterBand(probe.result.next, cfg.maxDelayMs)

\* C17, as stated: for all configurations (maxDelay >= initialDelay > 0,
\* backoffFactor > 1) and every jitter outcome, the backoff delay is
\* non-decreasing in attempt up to the attempt at which base saturates at
\* maxDelay, and for all later attempts stays within
\* [0.75 * maxDelay, 1.25 * maxDelay].
C17_BackoffMonotoneAsStated == BackoffMonotone(TRUE)

\* C17, amended: base is non-decreasing in attempt, every delay lies in the
\* jitter band of its base, the delay is non-decreasing in attempt for equal
\* jitter outcomes, and from saturation on the delay stays within
\* [0.75 * maxDelay, 1.25 * maxDelay].
C17_BackoffMonotone == BackoffMonotone(FALSE)

\* Short of saturation, with backoffFactor 3/2, a high jitter outcome
\* followed by a low one gives a shorter delay for the later attempt.
C17_LaterAttemptShorter ==
    /\ probe.fn = "calculateBackoff" /\ probe.done
    /\ probe.arg.cfg.backoffFactor = Ratio(3, 2)
    /\ BackoffBase(probe.arg.cfg, probe.arg.attempt + 1) < probe.arg.cfg.maxDelayMs
    /\ probe.result.next < probe.result.delay
    /\ InJitterBand(probe.result.delay, BackoffBase(probe.arg.cfg, probe.arg.attempt))
    /\ InJitterBand(probe.result.next, BackoffBase(probe.arg.cfg, probe.arg.attempt + 1))

\* Call c has issued an HTTP request, or has one outstanding.
HasIssuedRequest(c) == httpRequests[c] > 0 \/ pc[c] = "fetching"

\* Call c holds an admission slot counted in activeRequests, or has settled
\* after releasing the one it held.
UnderSlot(c) ==
    \/ pc[c] \in InFlight /\ activeRequests >= 1
    \/ pc[c] \in Settled /\ releases[c] = 1

\* C18: RateLimiter.execute is the single entry point of every remote
\* operation: each HTTP request made for Auth.generateToken,
\* StkPush.sendStkPush, Payout.send and RegisterUrl.register is issued from
\* inside a function passed to execute, while the issuing call holds an
\* admission slot counted in activeRequests.
C18_RequestsOnlyUnderSlot ==
    \A c \in Calls :
        (op[c] \in {"auth", "stk", "payout", "register"} /\ HasIssuedRequest(c)) =>
            UnderSlot(c)

\* Auth.generateToken has its HTTP GET outstanding while no call was ever
\* admitted and no slot is held.
C18_TokenFetchOutsideLimiter ==
    \E c \in Calls :
        /\ op[c] = "auth"
        /\ pc[c] = "fetching"
        /\ httpRequests[c] = 1
        /\ activeRequests = 0
        /\ admissions = <<>>

\* The states of an execute() call: Pending (not admitted), Attempting,
\* Retrying, and the terminal Succeeded and Exhausted, each before and after
\* the finally block.
PendingStates == {"idle", "waiting", "granted"}
Succeeded == {"returning", "resolved"}
Exhausted == {"throwing", "rejected"}
Transitions ==
    {<<"idle", "waiting">>, <<"idle", "granted">>, <<"waiting", "granted">>,
     <<"granted", "attempting">>,
     <<"attempting", "returning">>, <<"attempting", "backoff">>,
     <<"attempting", "throwing">>, <<"backoff", "attempting">>,
     <<"returning", "resolved">>, <<"throwing", "rejected">>}

\* What one step may do to call c under the state machine.
StateMachineStep(c) ==
    /\ pc'[c] # pc[c] => <<pc[c], pc'[c]>> \in Transitions
    \* the operation is invoked on admission and after a backoff only
    /\ pc[c] \in PendingStates => invocations[c] = 0
    /\ invocations'[c] # invocations[c] =>
        /\ invocations'[c] = invocations[c] + 1
        /\ pc[c] \in {"granted", "backoff"} /\ pc'[c] = "attempting"
    \* Retrying is not observed by the caller
    /\ pc[c] = "backoff" => settled[c] = Pending /\ settled'[c] = Pending
    \* Succeeded and Exhausted are terminal
    /\ pc[c] \in Succeeded => pc'[c] \in Succeeded
    /\ pc[c] \in Exhausted => pc'[c] \in Exhausted
    /\ pc[c] \in Succeeded \cup Exhausted =>
        /\ invocations'[c] = invocations[c]
        /\ settled'[c] = settled[c]
        /\ pc'[c] # pc[c] =>
            /\ activeRequests' = activeRequests - 1
            /\ requestTimestamps' = requestTimestamps
            /\ releases'[c] = releases[c] + 1
    /\ pc[c] \in Settled => pc'[c] = pc[c] /\ releases'[c] = releases[c]

\* C19: each execute() call follows the state machine Pending -> Admitted
\* -> Attempting -> {Succeeded | Retrying -> Attempting | Exhausted}: the
\* operation is never invoked before the call is admitted, Succeeded and
\* Exhausted are terminal (after either, the call invokes the operation no
\* more and changes the ledger only by its single release), and the
\* caller's promise never settles while the call is in Retrying.
C19_CallStateMachine == [][\A c \in Calls : StateMachineStep(c)]_vars

\* A call went through Retrying and back to Attempting, succeeded and
\* released its slot while another call is still waiting its turn.
C19_SucceededAfterRetrying ==
    \E c, d \in Calls :
        /\ pc[c] = "resolved"
        /\ backoffs[c] = 1 /\ invocations[c] = 2 /\ releases[c] = 1
        /\ pc[d] \in PendingStates

\* Call c has passed the admission check of waitForAvailableSlot and has not
\* yet incremented activeRequests and appended to requestTimestamps.
BetweenCheckAndUpdate(c) == pc[c] = "granted"

\* C20: admission is atomic with respect to the cooperative scheduler:
\* within execute(), no suspension point lies between the admission check
\* that found activeRequests < maxConcurrent and requestTimestamps.length <
\* maxConcurrent and the increment of activeRequests / append to
\* requestTimestamps, so no other call's check or update is interleaved
\* between one call's check and its update.
C20_AdmissionAtomic ==
    \A c \in Calls :
        BetweenCheckAndUpdate(c) =>
            /\ \A d \in Calls \ {c} : ~BetweenCheckAndUpdate(d)
            /\ SlotAvailable(activeRequests, requestTimestamps, rateLimitConfig)

\* With maxConcurrent = 1, a call that passed the check is about to take
\* its slot after another call's update has filled the limiter.
C20_UpdateAfterStaleCheck ==
    \E c, d \in Calls :
        /\ rateLimitConfig.maxConcurrent = 1
        /\ BetweenCheckAndUpdate(c)
        /\ pc[d] = "attempting"
        /\ activeRequests = 1 /\ Len(requestTimestamps) = 1
        /\ ~SlotAvailable(activeRequests, requestTimestamps, rateLimitConfig)

\* What one step of call c may do between its admission and the finally
\* block of execute().
SlotReusedStep(c) ==
    (pc[c] \in {"attempting", "backoff"} /\ pc'[c] # pc[c]) =>
        /\ pc'[c] \in InFlight
        /\ activeRequests' = activeRequests
        /\ requestTimestamps' = requestTimestamps
        /\ admissions' = admissions

\* C21: retries of one logical call reuse the slot acquired at admission:
\* between a call's admission and its final settlement, that call neither
\* re-runs the admission wait nor changes activeRequests or
\* requestTimestamps, whatever the number of retries and backoff delays.
C21_RetriesReuseSlot == [][\A c \in Calls : SlotReusedStep(c)]_vars

\* A call is at its second invocation, a backoff delay later, on the one
\* slot and the one timestamp of its admission.
C21_RetryingOnSameSlot ==
    \E c \in Calls :
        /\ pc[c] = "attempting"
        /\ backoffs[c] = 1 /\ invocations[c] = 2
        /\ activeRequests = 1
        /\ Len(admissions) = 1
        /\ requestTimestamps = admissions
        /\ now > admissions[1]

\* The step is an admission check of call c: one pass of the loop of
\* waitForAvailableSlot.
AdmissionCheck(c) ==
    /\ pc[c] \in {"idle", "waiting"}
    /\ pc'[c] = "granted" \/ (pc'[c] = "waiting" /\ due'[c] # due[c])

\* The admission instants that are still inside the window at instant t:
\* less than timeWindowMs old.
InsideWindow(instants, t) ==
    SelectSeq(instants, LAMBDA i : t - i < rateLimitConfig.timeWindowMs)

\* What one step may do to requestTimestamps.  "Older than timeWindow" is
\* read as no longer inside the window.
TimestampStep ==
    /\ admissions' # admissions =>
        /\ admissions' = Append(admissions, now)
        /\ requestTimestamps' = Append(requestTimestamps, now)
    /\ (requestTimestamps' # requestTimestamps /\ admissions' = admissions) =>
        /\ \E c \in Calls : AdmissionCheck(c)
        /\ requestTimestamps' = InsideWindow(requestTimestamps, now)
    /\ releases' # releases => requestTimestamps' = requestTimestamps
    /\ (\E c \in Calls : AdmissionCheck(c)) =>
        requestTimestamps' = InsideWindow(admissions, now)

RoutedFailure(c) ==
    /\ op[c] \in {"stk", "payout", "register"}
    /\ pc[c] \in {"backoff", "throwing", "rejected"}

\* What left the operation function is no error of the HTTP client, the
\* retry-eligibility predicate rejects it, and the function ran once.
NeverRetried(c) ==
    /\ ~InstanceOf(thrown[c], "AxiosError")
    /\ ~shouldRetry(thrown[c])
    /\ invocations[c] = 1 /\ backoffs[c] = 0

\* C27: for StkPush.sendStkPush, Payout.send and RegisterUrl.register,
\* every failure that leaves the operation function passed to execute() is
\* an already-typed error and never a raw transport error, so the
\* retry-eligibility predicate is false for it and the operation function
\* is invoked exactly once per execute() call, whatever HTTP status or
\* network condition caused the failure.
C27_RoutedFailuresTypedAndNotRetried ==
    \A c \in Calls :
        RoutedFailure(c) =>
            /\ thrown[c].t = "error" /\ thrown[c].class \in Taxonomy
            /\ NeverRetried(c)

\* Payout.send, under maxRetries = 3, has thrown the untyped Error of its
\* HTTP POST at the retry loop, which gives up at once.
C27_PayoutThrowsUntypedError ==
    \E c \in Calls :
        /\ op[c] = "payout"
        /\ pc[c] = "throwing"
        /\ thrown[c] = PlainError
        /\ thrown[c].class \notin Taxonomy
        /\ retryConfig.maxRetries = DefaultMaxRetries
        /\ NeverRetried(c)

\* The window is full at instant t: requestTimestamps holds maxConcurrent
\* entries, or more, that are inside the window.
WindowFull(t) ==
    Len(InsideWindow(requestTimestamps, t)) >= rateLimitConfig.maxConcurrent

\* The admission that has to leave the window before another call can be
\* let in: the maxConcurrent-th most recent one.
BlockingAdmission == admissions[Len(admissions) - rateLimitConfig.maxConcurrent + 1]

\* What an admission check does to call c when the window is full, and
\* when it lets a waiting call in.
WindowGatesWaiter(c) ==
    /\ (AdmissionCheck(c) /\ WindowFull(now)) => pc'[c] = "waiting"
    /\ (pc[c] = "waiting" /\ pc'[c] = "granted") =>
        /\ ~WindowFull(now)
        /\ Len(admissions) >= rateLimitConfig.maxConcurrent =>
            now >= BlockingAdmission + rateLimitConfig.timeWindowMs

\* C28: releasing a slot is not sufficient to admit a waiter: while
\* requestTimestamps still holds maxConcurrent entries inside the window, a
\* waiting call stays suspended even when activeRequests is 0, and it is
\* admitted no earlier than timeWindow after the admission of the oldest of
\* those entries.
C28_WindowGatesWaiters == [][\A c \in Calls : WindowGatesWaiter(c)]_vars

\* A call has polled and waits on, although no slot is held: the one
\* admission of the window is not yet timeWindow old.
C28_WaitingWithNoActiveRequest ==
    \E c \in Calls :
        /\ pc[c] = "waiting" /\ due[c] = (now + PollDelayMs) * Scale
        /\ now > 0
        /\ activeRequests = 0
        /\ WindowFull(now)

HandlesFailure(c) == pc[c] = "attempting" /\ pc'[c] \in {"backoff", "throwing"}

\* The decision call c takes in this step is the one the configuration cfg
\* gives: whether to retry, and after which delay.
DecidesUnder(c, cfg) ==
    /\ pc'[c] = "backoff" <=> RetryAllowed(cfg, attempt[c], thrown'[c])
    /\ pc'[c] = "backoff" =>
        \E rnd \in Randoms : backoffDelay'[c] = calculateBackoff(cfg, attempt[c], rnd)

\* C23: a call to setRetryConfig made while an execute() call is in flight
\* does not change that call's behaviour: its remaining retry decisions and
\* delay computations keep using the retry configuration as it was when the
\* call entered failure handling, and one decision never mixes fields of
\* the old and the new configuration.
C23_DecisionsUseSnapshot ==
    [][\A c \in Calls : HandlesFailure(c) => DecidesUnder(c, retrySnapshot'[c])]_vars

\* A call is in a backoff delay that the configuration it entered failure
\* handling with does not grant: maxRetries was raised in between.
C23_RetriedBeyondSnapshot ==
    \E c \in Calls :
        /\ pc[c] = "backoff"
        /\ retrySnapshot[c] # NoSnapshot
        /\ retrySnapshot[c].maxRetries >= 1
        /\ attempt[c] >= retrySnapshot[c].maxRetries
        /\ attempt[c] < retryConfig.maxRetries

\* The calls whose operation never settles.
Stalled == {c \in Calls : pc[c] = "stalled"}

\* What a step may do once operations have stalled.  A call is taken to be
\* admitted when its admission check succeeds.
StalledSlotsStep ==
    /\ \A c \in Stalled :
        /\ pc'[c] = "stalled"
        /\ releases'[c] = 0 /\ settled'[c] = Pending
    /\ activeRequests' >= Cardinality(Stalled)
    /\ Cardinality(Stalled) >= rateLimitConfig.maxConcurrent =>
        \A d \in Calls : AdmissionCheck(d) => pc'[d] = "waiting"

ArrivedBefore(c, d) == 0 < arrival[c] /\ arrival[c] < arrival[d]

\* What an admission check of call c looks at: the ledger, and neither the
\* order of arrival nor the other waiters.
ChecksLedgerOnly(c) ==
    /\ (pc[c] = "idle" /\ pc'[c] # "idle") => AdmissionCheck(c)
    /\ AdmissionCheck(c) =>
        (pc'[c] = "granted" <=>
            /\ activeRequests < rateLimitConfig.maxConcurrent
            /\ Len(InsideWindow(requestTimestamps, now)) < rateLimitConfig.maxConcurrent)

\* C25: admission is not FIFO: each waiter re-checks independently on its
\* own 100 ms poll and a new arrival checks immediately, so that a call that
\* started waiting later can be admitted before a call that started waiting
\* earlier, and under sustained saturation a waiting call can be bypassed
\* again and again.
C25_AdmissionIgnoresArrivalOrder == [][\A c \in Calls : ChecksLedgerOnly(c)]_vars

\* A call has polled and waits on while a call that arrived after it, and
\* after another one that has already come and gone, holds the slot.
C25_WaiterBypassedTwice ==
    \E c, d \in Calls :
        /\ pc[c] = "waiting" /\ due[c] > now * Scale
        /\ pc[d] \in InFlight
        /\ ArrivedBefore(c, d)
        /\ arrival[d] >= arrival[c] + 2

\* The rate limits admit nothing: maxConcurrent is NaN, or not positive.
Misconfigured(cfg) == NotANumber(cfg, "maxConcurrent") \/ cfg.maxConcurrent <= 0

\* Nothing has ever been admitted or let through the admission check.
NeverAdmitted == admissions = <<>> /\ \A c \in Calls : pc[c] \in {"idle", "waiting"}

\* What a step may do while the rate limits admit nothing.
MisconfiguredStep ==
    Misconfigured(rateLimitConfig) =>
        /\ \A c \in Calls :
            /\ AdmissionCheck(c) => pc'[c] = "waiting"
            /\ pc[c] \in {"idle", "waiting"} =>
                /\ pc'[c] \in {"idle", "waiting"}
                /\ invocations'[c] = 0
                /\ settled'[c] = Pending
        /\ NeverAdmitted =>
            /\ activeRequests = 0 /\ activeRequests' = 0
            /\ requestTimestamps = <<>> /\ requestTimestamps' = <<>>

SettledWithinBudget(c) ==
    /\ pc[c] \in Settled
    /\ settled[c] # Pending
    /\ invocations[c] \in 1..(retryConfig.maxRetries + 1)

\* C26: provided maxConcurrent >= 1, maxRetries is finite, every invocation
\* of an operation settles and only finitely many calls are issued, every
\* execute() call eventually settles: it is eventually admitted and then
\* succeeds or fails after at most maxRetries + 1 invocations.
C26_EveryCallSettles ==
    \A c \in Calls : (pc[c] # "idle") ~> SettledWithinBudget(c)

\* Under a limit of one, both calls have settled, the second admitted
\* later than the first, and one of them after maxRetries + 1 invocations.
C26_BothSettledOneAfterWaiting ==
    /\ rateLimitConfig.maxConcurrent = 1
    /\ retryConfig.maxRetries >= 1
    /\ \A c \in Contenders : SettledWithinBudget(c)
    /\ Len(admissions) = 2 /\ admissions[1] < admissions[2]
    /\ \E c \in Contenders : invocations[c] = retryConfig.maxRetries + 1

====
